---- MODULE Spec2Model ----
(***************************************************************************)
(* The evolution pipeline of the Darwinian engine: one lineage partition   *)
(* of the DynamoDB table, the Serving Path (proxy_agent), the Critic, the  *)
(* Mutator, the Judge and the Supervisor, and the retry / ticket logic     *)
(* that ties them together.                                                *)
(*                                                                         *)
(* Sort keys are tuples of their '#'-separated parts:                      *)
(*   VERSION#<ts>                        <<"VERSION", ts>>                 *)
(*   VERSION#<ts>#CHAT#<id>              <<"VERSION", ts, "CHAT", id>>     *)
(*   VERSION#<ts>#CHALLENGER#attempt-<n> <<"VERSION", ts, "CHALLENGER", n>>*)
(*   VERSION#<ts>#TICKET#<id>            <<"VERSION", ts, "TICKET", id>>   *)
(*   CURRENT                             <<"CURRENT">>                     *)
(* Python None is the empty tuple <<>>; f-strings are tuples of their      *)
(* parts; a dict is a record and a missing key is a missing field.         *)
(***************************************************************************)
EXTENDS Integers, Sequences, FiniteSets, TLC

\* ------------------------------------------------------------------ bounds
MaxRuns == 2        \* pipeline runs (Critic failure events taken up)
MaxRequests == 2    \* Serving Path requests
MaxFeedback == 1    \* feedback requests

RunIds == 1..MaxRuns
ReqIds == 1..MaxRequests

VARIABLES
    table,      \* the lineage partition: sort key -> item
    now,        \* last reading of datetime.utcnow()
    runs,       \* pipeline runs: the orchestrator's control payload and position
    reqs,       \* Serving Path invocations in flight
    events,     \* events emitted on the bus, in order of emission
    feedbacks,  \* number of feedback requests handled
    last        \* record of the last handler step taken (observation only)

vars == <<table, now, runs, reqs, events, feedbacks, last>>

None == <<>>

\* ------------------------------------------------------------- the store
CURRENT == <<"CURRENT">>
VersionSK(ts) == <<"VERSION", ts>>
\* The '#'-separated parts of a conversation id (ids are chosen by the
\* client and can hold the separator)
IdParts(chat_id) == IF chat_id = "a#CHAT#b" THEN <<"a", "CHAT", "b">> ELSE <<chat_id>>
ChatSK(version_sk, chat_id) == version_sk \o <<"CHAT">> \o IdParts(chat_id)
TicketSK(genome_sk, ticket_id) == genome_sk \o <<"TICKET", ticket_id>>

IsVersionSK(sk) == Len(sk) = 2 /\ sk[1] = "VERSION"
IsChallengerSK(sk) == Len(sk) = 4 /\ sk[3] = "CHALLENGER"
IsChatSK(sk) == Len(sk) >= 4 /\ sk[3] = "CHAT"
IsTicketSK(sk) == Len(sk) = 4 /\ sk[3] = "TICKET"

\* table.get_item: the item, or None when the key is absent
GetItem(tbl, sk) == IF sk \in DOMAIN tbl THEN tbl[sk] ELSE None
\* table.put_item: full overwrite of the item under its sort key
PutItem(tbl, item) == (item.SK :> item) @@ tbl

Has(d, k) == k \in DOMAIN d
\* dict.get(k, default)
Get(d, k, default) == IF k \in DOMAIN d THEN d[k] ELSE default

\* --------------------------------------------------- numbers and JSON
\* A DynamoDB number is read back as a Decimal.  v is the value in tenths
\* as far as a double holds it, x the digits a Decimal holds beyond the
\* precision of a double (0 when there are none).
Dec(v) == [t |-> "Decimal", v |-> v, x |-> 0]
\* sanitize_for_json on a number: int when integral, float otherwise; the
\* float keeps the double's digits only
sanitize_num(n) == IF n.t = "Decimal"
                   THEN (IF n.v % 10 = 0 /\ n.x = 0 THEN [t |-> "int", v |-> n.v]
                                                    ELSE [t |-> "float", v |-> n.v])
                   ELSE n
\* json.loads(json.dumps(n), parse_float=Decimal) on a number
json_roundtrip_num(n) ==
    IF n.t = "float" THEN [t |-> "Decimal", v |-> n.v, x |-> 0] ELSE n
\* what put_item stores, as get_item reads it back
stored_num(n) == [t |-> "Decimal", v |-> n.v, x |-> IF n.t = "Decimal" THEN n.x ELSE 0]

NumericFields == {"temperature", "max_tokens", "likes", "dislikes",
                  "input_token_count", "token_budget"}

\* sanitize_for_json on a flat section (config, economics)
sanitize_for_json(d) ==
    [f \in DOMAIN d |-> IF f \in NumericFields THEN sanitize_num(d[f]) ELSE d[f]]
\* json.loads(json.dumps(d), parse_float=Decimal) followed by the store's
\* number representation
to_db(d) ==
    [f \in DOMAIN d |-> IF f \in NumericFields
                        THEN stored_num(json_roundtrip_num(d[f])) ELSE d[f]]

\* ------------------------------------------------------- seeded lineage
V1_SK == VersionSK(0)

SeedBrain ==
    [persona |-> [role |-> "Concierge", tone |-> <<"Professional">>],
     style_guide |-> <<>>,
     objectives |-> <<"o1">>,
     operational_guidelines |-> <<"g1">>]

SeedGenome ==
    [SK |-> V1_SK,
     EntityType |-> "Genome",
     metadata |-> [name |-> <<"Agent">>,
                   description |-> <<"Initial Launch.">>,
                   creator |-> "Human_Admin",
                   version_hash |-> <<"hash-v1-000">>,
                   parent_hash |-> <<"null">>,
                   deployment_state |-> "ACTIVE",
                   mutation_reason |-> <<"Initial Deployment">>],
     config |-> [model_id |-> <<"us.", "amazon.nova", "-premier-v1:0">>,
                 temperature |-> Dec(7),
                 max_tokens |-> Dec(8000)],
     economics |-> [likes |-> Dec(100), dislikes |-> Dec(20),
                    input_token_count |-> Dec(50000),
                    token_budget |-> Dec(6000),
                    estimated_cost_of_calling |-> "$0.005"],
     brain |-> SeedBrain,
     resources |-> [knowledge_base_text |-> "kb", policy_text |-> "policy"],
     capabilities |-> [active_tools |-> <<>>],
     evolution_config |-> [critic_rules |-> <<"rule1">>,
                           judge_rubric |-> <<"rubric1">>]]

SeedPointer ==
    [SK |-> CURRENT, active_version_sk |-> V1_SK, last_updated |-> 0]


\* ---------------------------------------------------------- prompt utils
\* construct_system_prompt: the lines of the prompt, sections in fixed
\* order, empty sections omitted
Bullets(items) == [i \in 1..Len(items) |-> <<"- ", items[i]>>]
ToolLines(tools) ==
    [i \in 1..Len(tools) |->
        <<"- ", Get(tools[i], "name", "unknown"), ": ",
          Get(tools[i], "description", "No description")>>]
Section(title, lines) == IF lines = <<>> THEN <<>> ELSE <<<<title>>>> \o lines \o <<<<"">>>>

construct_system_prompt(genome) ==
    LET brain == Get(genome, "brain", [x \in {} |-> None])
        resources == Get(genome, "resources", [x \in {} |-> None])
        capabilities == Get(genome, "capabilities", [x \in {} |-> None])
        persona == Get(brain, "persona", [x \in {} |-> None])
        role == Get(persona, "role", "AI Assistant")
        tone == Get(persona, "tone", <<"Professional">>)
        style_guide == Get(brain, "style_guide", <<>>)
        objectives == Get(brain, "objectives", <<>>)
        operational_guidelines == Get(brain, "operational_guidelines", <<>>)
        knowledge_base_text == Get(resources, "knowledge_base_text", "")
        policy_text == Get(resources, "policy_text", "")
        active_tools == Get(capabilities, "active_tools", <<>>)
    IN  <<<<"You are a ", role, " with a ", tone, " tone.">>, <<"">>>>
        \o Section("STYLE GUIDE:", Bullets(style_guide))
        \o Section("OBJECTIVES:", Bullets(objectives))
        \o Section("OPERATIONAL GUIDELINES:",
                   [i \in 1..Len(operational_guidelines) |-> <<operational_guidelines[i]>>])
        \o (IF knowledge_base_text # "" THEN <<<<"KNOWLEDGE BASE:">>, <<knowledge_base_text>>, <<"">>>> ELSE <<>>)
        \o (IF policy_text # "" THEN <<<<"POLICY CONSTRAINTS:">>, <<policy_text>>, <<"">>>> ELSE <<>>)
        \o Section("AVAILABLE TOOLS:", ToolLines(active_tools))

\* Characters per prompt line: the text of a line is not modelled, its
\* length is taken as this fixed width.
LineChars == 40

\* estimate_token_count: int(len(text) / 4), 0 for the empty text
estimate_token_count(prompt) ==
    IF prompt = <<>> THEN 0 ELSE (Len(prompt) * LineChars) \div 4

\* compute_hash: a digest of the content, equal exactly for equal content
compute_hash(data) == <<"sha256", data>>


\* A handler that ended in an unhandled exception
Raised(what) == [error |-> what]
IsRaised(res) == Has(res, "error")
NoResult == [none |-> TRUE]

\* ------------------------------------------------------------- Mutator
\* A JSON value that is not an object (a string, a number)
NonDict == [scalar |-> TRUE]
IsDict(x) == ~Has(x, "scalar")

\* generate_fallback_mutations: three variants of the original brain;
\* raises KeyError when persona, operational_guidelines or style_guide
\* is missing
WithTone(brain, suffix) ==
    [brain EXCEPT !.persona =
        (("tone" :> (Get(brain.persona, "tone", <<"Professional">>) \o <<suffix>>))
         @@ brain.persona)]

FallbackFails(original_brain) ==
    \/ ~IsDict(original_brain)
    \/ ~Has(original_brain, "persona")
    \/ ~Has(original_brain, "operational_guidelines")
    \/ ~Has(original_brain, "style_guide")

\* generate_fallback_mutations without the copies: the three entries are
\* one brain, changed three times
generate_fallback_mutations_shared(original_brain) ==
    LET m == [WithTone(WithTone(WithTone(original_brain, " (Stricter)"), " (Empathetic)"), " (Concise)") EXCEPT
                 !.operational_guidelines =
                     @ \o <<"Strictly adhere to the provided policy.",
                            "Ensure the user feels heard and understood.">>,
                 !.style_guide = Append(@, "Keep responses under 2 sentences when possible.")]
    IN  <<m, m, m>>

generate_fallback_mutations(original_brain) ==
    LET m1 == [WithTone(original_brain, " (Stricter)") EXCEPT
                 !.operational_guidelines =
                     Append(@, "Strictly adhere to the provided policy.")]
        m2 == [WithTone(original_brain, " (Empathetic)") EXCEPT
                 !.operational_guidelines =
                     Append(@, "Ensure the user feels heard and understood.")]
        m3 == [WithTone(original_brain, " (Concise)") EXCEPT
                 !.style_guide =
                     Append(@, "Keep responses under 2 sentences when possible.")]
    IN  <<m1, m2, m3>>

\* What the mutation-generation call can produce.  kind:
\*   "error"    bedrock.converse raised
\*   "nojson"   the text holds no {...} or [...]
\*   "invalid"  json.loads raised on the matched text
\*   "dict"     a JSON object; it has the key "mutations" iff the record does
\*   "list"     a bare JSON array
\* A JSON array is [py |-> "list", items |-> <<...>>], any other JSON value
\* is [py |-> "other"].
PyList(items) == [py |-> "list", items |-> items]
PyOther == [py |-> "other"]

\* extract_json_safely: the parsed mutations, or a raise
extract_json_safely(content) ==
    IF content.kind = "dict" /\ Has(content, "mutations")
    THEN [ok |-> TRUE, value |-> content.mutations]
    ELSE IF content.kind = "list"
    THEN [ok |-> TRUE, value |-> PyList(content.items)]
    ELSE [ok |-> FALSE]

Temperature(retry_count) == IF retry_count > 0 THEN 4 ELSE 8

\* generate_mutations: the parsed model output, the fallback when the call
\* or the parsing raised; the fallback itself can raise
generate_mutations(original_genome, retry_count, content) ==
    LET brain == original_genome.brain
        parsed == extract_json_safely(content)
    IN  IF content.kind # "error" /\ parsed.ok
        THEN [ok |-> TRUE, value |-> parsed.value]
        ELSE IF FallbackFails(brain) THEN [ok |-> FALSE]
        ELSE [ok |-> TRUE, value |-> PyList(generate_fallback_mutations(brain))]

\* The parent_hash of a challenger, with the parent's own parent_hash in
\* the place of its version_hash
challenger_parent_hash_stale(original_meta) == Get(original_meta, "parent_hash", <<"unknown">>)
\* assemble_complete_genome: the parent_hash of the challenger
challenger_parent_hash(original_meta) == Get(original_meta, "version_hash", <<"unknown">>)

\* assemble_complete_genome
assemble_complete_genome(original, mutation_brain, critic_issue, challenger_sk) ==
    LET original_meta == Get(original, "metadata", [x \in {} |-> None])
        new_metadata ==
            [name |-> Get(original_meta, "name", <<"Agent">>) \o <<" (Candidate)">>,
             description |-> Get(original_meta, "description", <<>>),
             creator |-> "Darwinian_Mutator_Agent",
             version_hash |-> compute_hash(mutation_brain),
             parent_hash |-> challenger_parent_hash(original_meta),
             deployment_state |-> "PENDING_APPROVAL",
             mutation_reason |-> critic_issue.reason]
        config == Get(original, "config", [x \in {} |-> None])
        resources == Get(original, "resources", [x \in {} |-> None])
        capabilities == Get(original, "capabilities", [x \in {} |-> None])
        evolution_config == Get(original, "evolution_config", [x \in {} |-> None])
        original_econ == Get(original, "economics", [x \in {} |-> None])
        temp_genome_structure ==
            [brain |-> mutation_brain, resources |-> resources,
             capabilities |-> capabilities]
        token_count == estimate_token_count(construct_system_prompt(temp_genome_structure))
        economics ==
            [likes |-> [t |-> "int", v |-> 0],
             dislikes |-> [t |-> "int", v |-> 0],
             input_token_count |-> [t |-> "int", v |-> 10 * token_count],
             token_budget |-> Get(original_econ, "token_budget", [t |-> "int", v |-> 6000]),
             estimated_cost_of_calling |-> "$0.001"]
    IN  [SK |-> challenger_sk,
         EntityType |-> "Challenger",
         metadata |-> new_metadata,
         config |-> config,
         economics |-> economics,
         brain |-> mutation_brain,
         resources |-> resources,
         capabilities |-> capabilities,
         evolution_config |-> evolution_config]

\* challenger_item_to_write that hands over the config as sanitize_for_json
\* left it, without the pass through json.loads(..., parse_float=Decimal)
challenger_item_to_write_floats(c) == [c EXCEPT !.config = sanitize_for_json(@), !.economics = to_db(sanitize_for_json(@))]

\* The item as write_complete_challengers hands it to put_item
challenger_item_to_write(c) ==
    [c EXCEPT !.config = to_db(sanitize_for_json(@)),
              !.economics = to_db(sanitize_for_json(@))]

\* base_attempt without the offset of the retry round
base_attempt_flat(retry_count) == 1
base_attempt(retry_count) == IF retry_count = 0 THEN 1 ELSE 4

\* The mutation brain on which assemble_complete_genome raises
\* (construct_system_prompt calls .get on it)
AssembleFails(mutation_brain) ==
    \/ ~IsDict(mutation_brain)
    \/ (Has(mutation_brain, "persona") /\ ~IsDict(mutation_brain.persona))

\* write_complete_challengers: items are assembled and written one by one;
\* put_fail is the 1-based position of the put_item that raises (0: none).
\* The writes made before a raise stay in the table.
RECURSIVE write_loop(_, _, _, _, _, _, _, _)
write_loop(tbl, original_genome, mutations, critic_issue, retry_count, i, sks, put_fail) ==
    IF i > Len(mutations)
    THEN [table |-> tbl, ok |-> TRUE, challenger_sks |-> sks, put_raised |-> FALSE]
    ELSE LET attempt_num == base_attempt(retry_count) + (i - 1)
             challenger_sk == <<"VERSION", original_genome.SK[2], "CHALLENGER", attempt_num>>
         IN  IF AssembleFails(mutations[i])
             THEN [table |-> tbl, ok |-> FALSE, challenger_sks |-> sks,
                   put_raised |-> FALSE]
             ELSE IF put_fail = i
             THEN [table |-> tbl, ok |-> FALSE, challenger_sks |-> sks,
                   put_raised |-> TRUE]
             ELSE write_loop(
                    PutItem(tbl, challenger_item_to_write(
                        assemble_complete_genome(original_genome, mutations[i],
                                                 critic_issue, challenger_sk))),
                    original_genome, mutations, critic_issue, retry_count,
                    i + 1, Append(sks, challenger_sk), put_fail)

write_complete_challengers(tbl, original_genome, mutations, critic_issue, retry_count, put_fail) ==
    write_loop(tbl, original_genome, mutations, critic_issue, retry_count, 1, <<>>, put_fail)

\* Mutator lambda_handler.  read_ok: the get_item of fetch_genome does not
\* raise.  Returns the table after the invocation, its result, the sort
\* keys it has put, in order, and whether a store call raised.
Mutator_lambda_handler(tbl, data, retry_count, content, read_ok, put_fail) ==
    LET genome_sk_val == data.genome_sk
        critic_issue == IF Has(data, "critic_issue") THEN data.critic_issue
                        ELSE [reason |-> Get(data, "reason", <<"Optimization required">>),
                              rule |-> "Protocol Violation"]
        original_genome == GetItem(tbl, genome_sk_val)
    IN  IF ~read_ok \/ original_genome = None
        THEN [table |-> tbl, written |-> <<>>, store_fault |-> ~read_ok,
              result |-> Raised("Genome not found")]
        ELSE IF ~Has(original_genome, "brain")
        THEN [table |-> tbl, written |-> <<>>, store_fault |-> FALSE,
              result |-> Raised("KeyError: brain")]
        ELSE
        LET gen == generate_mutations(original_genome, retry_count, content)
        IN  IF ~gen.ok
            THEN [table |-> tbl, written |-> <<>>, store_fault |-> FALSE,
                  result |-> Raised("fallback raised")]
            ELSE IF gen.value.py # "list"
            THEN [table |-> tbl, written |-> <<>>, store_fault |-> FALSE,
                  result |-> Raised("TypeError: len()")]
            ELSE
            LET first == gen.value.items
                needs_fallback == Len(first) # 3
            IN  IF needs_fallback /\ FallbackFails(original_genome.brain)
                THEN [table |-> tbl, written |-> <<>>, store_fault |-> FALSE,
                  result |-> Raised("fallback raised")]
                ELSE
                LET mutations == IF needs_fallback
                                 THEN generate_fallback_mutations(original_genome.brain)
                                 ELSE first
                    w == write_complete_challengers(tbl, original_genome, mutations,
                                                    critic_issue, retry_count, put_fail)
                IN  IF w.ok
                    THEN [table |-> w.table, written |-> w.challenger_sks,
                          store_fault |-> FALSE,
                          result |-> [challenger_sks |-> w.challenger_sks]]
                    ELSE [table |-> w.table, written |-> w.challenger_sks,
                          store_fault |-> w.put_raised,
                          result |-> Raised("write_complete_challengers raised")]


\* ------------------------------------------------- escalation (Judge)
\* The retry threshold both handle_failure functions compare against
RetryThreshold == 1

\* A ticket id: a prefix and the first hex digits of a fresh uuid4
TicketId(prefix, uuid) == <<prefix, uuid>>

\* Judge handle_failure returning the count the next round will run with
Judge_handle_failure_bumped(tbl, genome_sk, chat_sk, retry_count, reason, failed_challenger, uuid, clock, put_ok) ==
    IF retry_count < RetryThreshold
    THEN [table |-> tbl,
          result |-> [improved |-> FALSE, reason |-> reason,
                      retryCount |-> retry_count + 1]]
    ELSE
    LET ticket_id == TicketId("xyz-", uuid)
        ticket_sk == TicketSK(genome_sk, ticket_id)
        ticket_item ==
            [SK |-> ticket_sk,
             EntityType |-> "Ticket",
             timestamp |-> clock,
             type |-> "SYSTEM",
             status |-> "OPEN",
             chat_sk |-> chat_sk,
             challenger_sk |-> IF failed_challenger # None THEN failed_challenger
                               ELSE <<"NONE_SELECTED">>,
             feedback |-> "Automated Alert: Judge marked evolution as FAIL after retries.",
             ai_analysis |-> reason]
    IN  [table |-> IF put_ok THEN PutItem(tbl, ticket_item) ELSE tbl,
         result |-> [improved |-> FALSE,
                     reason |-> <<"Final Failure. Ticket Created: ">> \o ticket_id,
                     ticket_sk |-> ticket_sk,
                     retryCount |-> retry_count]]

\* Judge handle_failure.  put_ok: the put_item of the ticket does not raise
\* (a raise is logged and swallowed).
Judge_handle_failure(tbl, genome_sk, chat_sk, retry_count, reason, failed_challenger, uuid, clock, put_ok) ==
    IF retry_count < RetryThreshold
    THEN [table |-> tbl,
          result |-> [improved |-> FALSE, reason |-> reason,
                      retryCount |-> retry_count]]
    ELSE
    LET ticket_id == TicketId("xyz-", uuid)
        ticket_sk == TicketSK(genome_sk, ticket_id)
        ticket_item ==
            [SK |-> ticket_sk,
             EntityType |-> "Ticket",
             timestamp |-> clock,
             type |-> "SYSTEM",
             status |-> "OPEN",
             chat_sk |-> chat_sk,
             challenger_sk |-> IF failed_challenger # None THEN failed_challenger
                               ELSE <<"NONE_SELECTED">>,
             feedback |-> "Automated Alert: Judge marked evolution as FAIL after retries.",
             ai_analysis |-> reason]
    IN  [table |-> IF put_ok THEN PutItem(tbl, ticket_item) ELSE tbl,
         result |-> [improved |-> FALSE,
                     reason |-> <<"Final Failure. Ticket Created: ">> \o ticket_id,
                     ticket_sk |-> ticket_sk,
                     retryCount |-> retry_count]]

\* --------------------------------------------------------------- Judge
\* Python indexing and slicing of a list, negative indices included
PyIndexOk(seq, k) == -Len(seq) <= k /\ k < Len(seq)
PyIndex(seq, k) == IF k >= 0 THEN seq[k + 1] ELSE seq[Len(seq) + k + 1]
PyPrefix(seq, k) ==
    LET n == IF k >= 0 THEN (IF k < Len(seq) THEN k ELSE Len(seq))
             ELSE (IF Len(seq) + k > 0 THEN Len(seq) + k ELSE 0)
    IN  SubSeq(seq, 1, n)

\* What invoke_judge_model returns: it catches every exception, so the
\* result is {} (kind "empty"), a parsed object (kind "dict", with the
\* keys the model produced) or a parsed array (kind "list").
JudgeEmpty == [kind |-> "empty"]
JudgeList == [kind |-> "list"]

\* A model id is the tuple of its parts: an optional region prefix "us.",
\* the vendor and family, and the rest ("amazon.nova-premier-v1:0" is
\* <<"amazon.nova", "-premier-v1:0">>).
\* invoke_agent_simulation: the model id the simulation is run on
simulation_model_id(genome) ==
    LET config == Get(genome, "config", [x \in {} |-> None])
        target_model_id == Get(config, "model_id", <<"us.", "amazon.nova", "-micro-v1:0">>)
    IN  IF target_model_id[1] = "amazon.nova" /\ target_model_id[1] # "us."
        THEN <<"us.">> \o target_model_id
        ELSE target_model_id

\* The text a simulated challenger answers with
SimResponse(sk) == <<"simulated response of ", sk>>

\* Step 4 of the Judge: the challengers that were fetched and simulated,
\* in input order.  sim_ok: the positions whose get_item and simulation
\* both succeed for an existing challenger.
\* candidate_responses that keeps the challengers whose simulation failed
candidate_responses_all(tbl, challenger_sks, sim_ok, i) == [j \in 1..Len(challenger_sks) |-> [challenger_sk |-> challenger_sks[j], response |-> SimResponse(challenger_sks[j])]]

RECURSIVE candidate_responses(_, _, _, _)
candidate_responses(tbl, challenger_sks, sim_ok, i) ==
    IF i > Len(challenger_sks) THEN <<>>
    ELSE LET sk == challenger_sks[i]
             rest == candidate_responses(tbl, challenger_sks, sim_ok, i + 1)
         IN  IF GetItem(tbl, sk) # None /\ i \in sim_ok
             THEN <<[challenger_sk |-> sk, response |-> SimResponse(sk),
                     model_id |-> simulation_model_id(GetItem(tbl, sk))]>> \o rest
             ELSE rest

\* run_comparator_stage: the winning candidate or None
run_comparator_stage(candidates, res) ==
    IF candidates = <<>> THEN None
    ELSE IF res.kind = "dict" /\ Has(res, "winner_id")
            /\ res.winner_id # -1 /\ 0 <= res.winner_id /\ res.winner_id < Len(candidates)
    THEN candidates[res.winner_id + 1]
    ELSE None

\* run_compliance_stage returns what invoke_judge_model returned
run_compliance_stage(res) == res

\* compliance_result['passed'] is there, and the truth value Python's if
\* gives it: a string is true unless it is empty
has_passed(compliance_result) == Has(compliance_result, "passed") \/ Has(compliance_result, "passed_text")
passed_truth(compliance_result) ==
    IF Has(compliance_result, "passed") THEN compliance_result.passed
    ELSE compliance_result.passed_text # <<>>

\* Step 3 of the Judge: the evaluation context of a Chat, or the raise of
\* int() or of the indexing.  A Chat's failure_turn_index is <<n>> for the
\* integer n and None for null.
evaluation_context(original_chat) ==
    LET transcript == Get(original_chat, "transcript", <<>>)
        raw_index == Get(original_chat, "failure_turn_index", <<Len(transcript) - 1>>)
    IN  IF raw_index = None THEN Raised("TypeError: int(None)")
        ELSE IF ~PyIndexOk(transcript, raw_index[1]) THEN Raised("IndexError")
        ELSE [failure_index |-> raw_index[1],
              truncated_transcript |-> PyPrefix(transcript, raw_index[1]),
              original_bad_response |-> PyIndex(transcript, raw_index[1]).content,
              critic_reason |-> Get(original_chat, "critic_reason", <<"Unknown failure">>)]

\* The chat sort key of a Judge invocation
judge_chat_sk(detail) == Get(detail, "chat_sk", ChatSK(detail.genome_sk, "abc-123"))

\* Judge lambda_handler.  env: reads_ok (the get_item calls for genome and
\* chat do not fail), sim_ok, comparator and compliance (what the judge
\* model returns in each stage), uuid, clock, put_ok (for the ticket).
Judge_lambda_handler(tbl, detail, challenger_sks, retry_count, env) ==
    LET genome_sk == detail.genome_sk
        chat_sk == judge_chat_sk(detail)
        original_genome == IF env.reads_ok THEN GetItem(tbl, genome_sk) ELSE None
        original_chat == IF env.reads_ok THEN GetItem(tbl, chat_sk) ELSE None
    IN  IF original_genome = None \/ original_chat = None
        THEN [table |-> tbl, result |-> Raised("Missing Data"), hf |-> FALSE]
        ELSE
        LET context == evaluation_context(original_chat)
        IN  IF IsRaised(context)
            THEN [table |-> tbl, result |-> context, hf |-> FALSE]
            ELSE
            LET truncated_transcript == context.truncated_transcript
                original_bad_response == context.original_bad_response
                critic_reason == context.critic_reason
                candidates == candidate_responses(tbl, challenger_sks, env.sim_ok, 1)
                winner == run_comparator_stage(candidates, env.comparator)
            IN  IF winner = None
                THEN Judge_handle_failure(tbl, genome_sk, chat_sk, retry_count,
                        <<"No challenger improved on the failure.">>, None,
                        env.uuid, env.clock, env.put_ok) @@ [hf |-> TRUE]
                ELSE
                LET compliance_result == run_compliance_stage(env.compliance)
                IN  IF compliance_result.kind # "dict" \/ ~has_passed(compliance_result)
                    THEN [table |-> tbl, result |-> Raised("KeyError: passed"), hf |-> FALSE]
                    ELSE IF ~Has(compliance_result, "reason")
                    THEN [table |-> tbl, result |-> Raised("KeyError: reason"), hf |-> FALSE]
                    ELSE IF passed_truth(compliance_result)
                    THEN [table |-> tbl, hf |-> FALSE,
                          result |-> [improved |-> TRUE,
                                      selected_challenger_sk |-> winner.challenger_sk,
                                      improved_response |-> winner.response,
                                      reason |-> compliance_result.reason,
                                      retryCount |-> retry_count]]
                    ELSE Judge_handle_failure(tbl, genome_sk, chat_sk, retry_count,
                            <<"Improved logic but failed Compliance: ">> \o compliance_result.reason,
                            winner.challenger_sk,
                            env.uuid, env.clock, env.put_ok) @@ [hf |-> TRUE]


\* --------------------------------------------- escalation (Supervisor)
\* Supervisor handle_failure that allows one retry more
Supervisor_handle_failure_late(tbl, genome_sk, chat_sk, retry_count, reason, failed_challenger, uuid, clock, put_ok) ==
    IF retry_count <= RetryThreshold
    THEN [table |-> tbl, result |-> [compliant |-> FALSE, reason |-> reason]]
    ELSE
    LET ticket_id == TicketId("sup-", uuid)
        ticket_sk == TicketSK(genome_sk, ticket_id)
        ticket_item ==
            [SK |-> ticket_sk,
             EntityType |-> "Ticket",
             timestamp |-> clock,
             type |-> "SYSTEM",
             status |-> "OPEN",
             chat_sk |-> IF chat_sk # None THEN chat_sk ELSE <<"UNKNOWN">>,
             challenger_sk |-> IF failed_challenger # None THEN failed_challenger
                               ELSE <<"NONE">>,
             feedback |-> "Automated Alert: Supervisor Safety Check Failed.",
             ai_analysis |-> reason]
    IN  [table |-> IF put_ok THEN PutItem(tbl, ticket_item) ELSE tbl,
         result |-> [compliant |-> FALSE,
                     reason |-> <<"Final Failure. Ticket Created: ">> \o ticket_id]]

\* Supervisor handle_failure
Supervisor_handle_failure(tbl, genome_sk, chat_sk, retry_count, reason, failed_challenger, uuid, clock, put_ok) ==
    IF retry_count < RetryThreshold
    THEN [table |-> tbl, result |-> [compliant |-> FALSE, reason |-> reason]]
    ELSE
    LET ticket_id == TicketId("sup-", uuid)
        ticket_sk == TicketSK(genome_sk, ticket_id)
        ticket_item ==
            [SK |-> ticket_sk,
             EntityType |-> "Ticket",
             timestamp |-> clock,
             type |-> "SYSTEM",
             status |-> "OPEN",
             chat_sk |-> IF chat_sk # None THEN chat_sk ELSE <<"UNKNOWN">>,
             challenger_sk |-> IF failed_challenger # None THEN failed_challenger
                               ELSE <<"NONE">>,
             feedback |-> "Automated Alert: Supervisor Safety Check Failed.",
             ai_analysis |-> reason]
    IN  [table |-> IF put_ok THEN PutItem(tbl, ticket_item) ELSE tbl,
         result |-> [compliant |-> FALSE,
                     reason |-> <<"Final Failure. Ticket Created: ">> \o ticket_id]]

\* ---------------------------------------------------------- Supervisor
\* The audit call: kind "error" when invoke_model or the reading of its
\* body raises, else kind "text" with the stripped output as its words.
AuditError == [kind |-> "error"]
AuditText(words) == [kind |-> "text", text |-> words]

StartsWith(text, word) == text # <<>> /\ text[1] = word
Contains(text, word) == \E i \in 1..Len(text) : text[i] = word

\* validate_genome_safety failing open: an audit error counts as safe
validate_genome_safety_open(item, audit) ==
    LET brain == Get(item, "brain", [x \in {} |-> None])
    IN  IF DOMAIN brain = {} \/ ~Has(brain, "persona")
           \/ ~Has(brain, "operational_guidelines")
        THEN [safe |-> FALSE, reason |-> <<"Structural Corruption: Missing Brain/Persona">>]
        ELSE IF audit.kind = "error"
        THEN [safe |-> TRUE, reason |-> <<"Passed (Ambiguous Audit)">>]
        ELSE IF StartsWith(audit.text, "SAFE")
        THEN [safe |-> TRUE, reason |-> <<"Passed Policy Audit">>]
        ELSE IF Contains(audit.text, "VIOLATION")
        THEN [safe |-> FALSE, reason |-> audit.text]
        ELSE [safe |-> TRUE, reason |-> <<"Passed (Ambiguous Audit)">>]

\* validate_genome_safety
validate_genome_safety(item, audit) ==
    LET brain == Get(item, "brain", [x \in {} |-> None])
    IN  IF DOMAIN brain = {} \/ ~Has(brain, "persona")
           \/ ~Has(brain, "operational_guidelines")
        THEN [safe |-> FALSE, reason |-> <<"Structural Corruption: Missing Brain/Persona">>]
        ELSE IF audit.kind = "error"
        THEN [safe |-> FALSE, reason |-> <<"Audit System Offline: ">>]
        ELSE IF StartsWith(audit.text, "SAFE")
        THEN [safe |-> TRUE, reason |-> <<"Passed Policy Audit">>]
        ELSE IF Contains(audit.text, "VIOLATION")
        THEN [safe |-> FALSE, reason |-> audit.text]
        ELSE [safe |-> TRUE, reason |-> <<"Passed (Ambiguous Audit)">>]

\* new_genome that leaves evolution_config at its default
new_genome_defaults(winner_item, genome_sk, promotion_reason, now_iso, uuid) ==
    LET winner_meta == Get(winner_item, "metadata", [x \in {} |-> None])
    IN  [SK |-> VersionSK(now_iso),
         EntityType |-> "Genome",
         brain |-> Get(winner_item, "brain", [x \in {} |-> None]),
         config |-> Get(winner_item, "config", [x \in {} |-> None]),
         resources |-> Get(winner_item, "resources", [x \in {} |-> None]),
         capabilities |-> Get(winner_item, "capabilities", [x \in {} |-> None]),
         evolution_config |-> [x \in {} |-> None],
         economics |-> Get(winner_item, "economics", [x \in {} |-> None]),
         metadata |->
            [name |-> Get(winner_meta, "name", <<"Agent">>) \o <<" (v", now_iso, ")">>,
             description |-> <<"Evolved from ", genome_sk>>,
             creator |-> "Supervisor_Agent",
             version_hash |-> <<"uuid4", uuid>>,
             parent_hash |-> Get(winner_meta, "parent_hash", <<"unknown">>),
             deployment_state |-> "ACTIVE",
             mutation_reason |-> promotion_reason,
             deployed_at |-> now_iso]]

\* new_genome that chains the new version to the Challenger: parent_hash is
\* the winner's own version_hash
new_genome_chained(winner_item, genome_sk, promotion_reason, now_iso, uuid) == [new_genome_defaults(winner_item, genome_sk, promotion_reason, now_iso, uuid) EXCEPT !.evolution_config = Get(winner_item, "evolution_config", [x \in {} |-> None]), !.metadata.parent_hash = Get(Get(winner_item, "metadata", [x \in {} |-> None]), "version_hash", <<"unknown">>)]

\* Step 4 of the Supervisor: the new top-level GenomeVersion
new_genome(winner_item, genome_sk, promotion_reason, now_iso, uuid) ==
    LET winner_meta == Get(winner_item, "metadata", [x \in {} |-> None])
    IN  [SK |-> VersionSK(now_iso),
         EntityType |-> "Genome",
         brain |-> Get(winner_item, "brain", [x \in {} |-> None]),
         config |-> Get(winner_item, "config", [x \in {} |-> None]),
         resources |-> Get(winner_item, "resources", [x \in {} |-> None]),
         capabilities |-> Get(winner_item, "capabilities", [x \in {} |-> None]),
         evolution_config |-> Get(winner_item, "evolution_config", [x \in {} |-> None]),
         economics |-> Get(winner_item, "economics", [x \in {} |-> None]),
         metadata |->
            [name |-> Get(winner_meta, "name", <<"Agent">>) \o <<" (v", now_iso, ")">>,
             description |-> <<"Evolved from ", genome_sk>>,
             creator |-> "Supervisor_Agent",
             version_hash |-> <<"uuid4", uuid>>,
             parent_hash |-> Get(winner_meta, "parent_hash", <<"unknown">>),
             deployment_state |-> "ACTIVE",
             mutation_reason |-> promotion_reason,
             deployed_at |-> now_iso]]

\* pointer_item that builds the version key from a second clock reading
pointer_item_reclocked(new_version_sk, now_iso) ==
    [SK |-> CURRENT,
     active_version_sk |-> VersionSK(now_iso + 1),
     last_updated |-> now_iso + 1,
     updated_by |-> "Supervisor_Agent"]

\* Step 5 of the Supervisor: the new CurrentPointer
pointer_item(new_version_sk, now_iso) ==
    [SK |-> CURRENT,
     active_version_sk |-> new_version_sk,
     last_updated |-> now_iso,
     updated_by |-> "Supervisor_Agent"]

\* The genome as step 6 hands it to put_item
genome_item_db(g) ==
    [g EXCEPT !.config = to_db(sanitize_for_json(@)),
              !.economics = to_db(sanitize_for_json(@))]


\* -------------------------------------------- the external orchestrator
\* The control payload of a pipeline run and the orchestrator's position.
\* hist and failedAt are observation only: the Mutator invocations of the
\* run, each with the retryCount it was given and the sort keys it wrote,
\* and the evaluation stages that failed, each with its retryCount.
IdleRun ==
    [pc |-> "idle", detail |-> NoResult, retryCount |-> 0,
     mutatorResult |-> NoResult, judgeResult |-> NoResult,
     supervisorResult |-> NoResult, sup |-> NoResult,
     hist |-> <<>>, failedAt |-> <<>>]

\* A Judge failure result is terminal when it names a ticket
JudgeTerminal(res) == Has(res, "ticket_sk")
\* A Supervisor failure result is terminal when its reason is the
\* final-failure message
SupervisorTerminal(res) == res.reason[1] = "Final Failure. Ticket Created: "

\* Where the orchestrator goes after each stage
AfterMutator(run, res) ==
    IF IsRaised(res) THEN [run EXCEPT !.pc = "done", !.mutatorResult = res]
    ELSE [run EXCEPT !.pc = "judge", !.mutatorResult = res]

AfterJudge(run, res) ==
    IF IsRaised(res) THEN [run EXCEPT !.pc = "done", !.judgeResult = res]
    ELSE IF res.improved THEN [run EXCEPT !.pc = "supervisor", !.judgeResult = res]
    ELSE IF JudgeTerminal(res) THEN [run EXCEPT !.pc = "done", !.judgeResult = res]
    ELSE [run EXCEPT !.pc = "mutator", !.judgeResult = res,
                     !.retryCount = run.retryCount + 1]

AfterSupervisor(run, res) ==
    IF Has(res, "status") THEN [run EXCEPT !.pc = "done", !.supervisorResult = res]
    ELSE IF SupervisorTerminal(res) THEN [run EXCEPT !.pc = "done", !.supervisorResult = res]
    ELSE [run EXCEPT !.pc = "mutator", !.supervisorResult = res,
                     !.retryCount = run.retryCount + 1]

\* An event on the bus; taken: a consumer has been started for it
Event(source, detail) == [source |-> source, detail |-> detail, taken |-> FALSE]

\* ---------------------------------------------------- the environment
\* What `last` becomes after a step: the record of the step where the
\* specification observes steps, else unchanged
Seen(E, rec) == IF E.observe THEN rec ELSE last
\* hist and failedAt of a run likewise: extended where steps are observed
Noted(E, old, entry) == IF E.observe THEN Append(old, entry) ELSE old

\* Brains the mutation model can come up with
LLMBrain(tone) ==
    [persona |-> [role |-> "Concierge", tone |-> <<tone>>],
     style_guide |-> <<"s1">>,
     objectives |-> <<"o1">>,
     operational_guidelines |-> <<"g1", "g2">>]
BrainNoPersona ==
    [style_guide |-> <<>>, objectives |-> <<"o1">>,
     operational_guidelines |-> <<"g1">>]
ThreeBrains == <<LLMBrain("Calm"), LLMBrain("Firm"), LLMBrain("Brief")>>

\* What the mutation-generation call can produce
MutatorContents ==
    { [kind |-> "error"], [kind |-> "nojson"], [kind |-> "invalid"],
      [kind |-> "dict"],
      [kind |-> "dict", mutations |-> PyList(ThreeBrains)],
      [kind |-> "dict", mutations |-> PyOther],
      [kind |-> "list", items |-> ThreeBrains],
      [kind |-> "list", items |-> <<BrainNoPersona, LLMBrain("Calm"), LLMBrain("Firm")>>],
      [kind |-> "list", items |-> <<LLMBrain("Calm"), NonDict, LLMBrain("Firm")>>],
      [kind |-> "list", items |-> <<LLMBrain("Calm"), LLMBrain("Firm")>>],
      [kind |-> "list", items |-> ThreeBrains \o <<LLMBrain("Calm")>>] }

\* The store faults of a Mutator invocation: the read of the parent
\* raises, or the put_item at position put_fail raises (0: none)
MutatorFaults ==
    {[read_ok |-> FALSE, put_fail |-> 0]}
    \cup {[read_ok |-> TRUE, put_fail |-> p] : p \in 0..3}

\* What the judge model returns in the comparator stage
ComparatorOutputs ==
    {JudgeEmpty, JudgeList, [kind |-> "dict", reason |-> <<"r">>]}
    \cup {[kind |-> "dict", winner_id |-> w, reason |-> <<"r">>] : w \in -1..3}
\* What the judge model returns in the compliance stage.  passed is the
\* value of the key when it is a JSON boolean, passed_text when it is a
\* JSON string (<<>> the empty string).
ComplianceOutputs ==
    {JudgeEmpty, JudgeList,
     [kind |-> "dict", passed |-> TRUE],
     [kind |-> "dict", passed |-> TRUE, reason |-> <<"compliant">>],
     [kind |-> "dict", passed |-> FALSE, reason |-> <<"off policy">>]}
\* Answers of the compliance stage whose passed is a string
CompliancePassedTexts ==
    {[kind |-> "dict", passed_text |-> <<"false">>, reason |-> <<"off policy">>],
     [kind |-> "dict", passed_text |-> <<>>, reason |-> <<"off policy">>]}
\* The challenger positions whose fetch and simulation succeed
SimOkSets == {{}, {1}, {2, 3}, {1, 2, 3}}

\* The environments of a Judge invocation
JudgeEnvs ==
    [reads_ok : BOOLEAN, sim_ok : SimOkSets, comparator : ComparatorOutputs,
     compliance : ComplianceOutputs, put_ok : BOOLEAN]

\* What the audit call of the Supervisor can produce
AuditOutputs ==
    {AuditError, AuditText(<<"SAFE">>), AuditText(<<"SAFE", "VIOLATION">>),
     AuditText(<<"VIOLATION", "be rude">>), AuditText(<<"Looks", "VIOLATION">>),
     AuditText(<<"Looks", "fine">>), AuditText(<<>>)}

\* What the Critic's model call can produce: kind "error" when the call or
\* the JSON extraction raises, else the parsed object.  A reasoning of <<>> is
\* the empty string or null; a failure_detail of NonDict is null or a
\* JSON value that is not an object
CriticOutputs ==
    { [kind |-> "error"],
      [kind |-> "dict"],
      [kind |-> "dict", verdict |-> "MAYBE"],
      [kind |-> "dict", verdict |-> "PASS"],
      [kind |-> "dict", verdict |-> "FAIL"],
      [kind |-> "dict", verdict |-> "FAIL",
       failure_detail |-> [turn_index |-> <<1>>, reasoning |-> <<"violates rule1">>]],
      [kind |-> "dict", verdict |-> "FAIL",
       failure_detail |-> [turn_index |-> None, reasoning |-> <<"violates rule1">>]],
      [kind |-> "dict", verdict |-> "FAIL",
       failure_detail |-> [turn_index |-> <<1>>, reasoning |-> <<>>]],
      [kind |-> "dict", verdict |-> "FAIL", failure_detail |-> NonDict],
      [kind |-> "dict", verdict |-> "PASS", failure_detail |-> NonDict] }

\* exponential_backoff_retry: the attempt cap every caller uses
MaxRetries == 3
\* What the calls of one gateway invocation can do, attempt by attempt.
\* A call after the first one that did not throttle is never made, so its
\* outcome is fixed to "ok".
CallOutcomes == {"ok", "throttle", "error"}
GatewayOutcomes ==
    {o \in [1..MaxRetries -> CallOutcomes] :
        \A i, j \in 1..MaxRetries : (i < j /\ o[i] # "throttle") => o[j] = "ok"}

\* What the analysis call returns: it raises, or it answers with a text
AnalysisOutputs ==
    {[kind |-> "error"],
     [kind |-> "text", text |-> <<"NOT_POSSIBLE">>],
     [kind |-> "text", text |-> <<"prefer one recommendation">>]}

\* Feedback requests: the feedback type, the comment, the call of the store
\* that raises (if any)
FeedbackTypes == {"like", "dislike", "neutral"}
FeedbackComments == {<<>>, <<"too long">>}
FeedbackFaults == {"none", "read", "update", "chat_read", "put"}

\* Every outcome of the gateway calls and of the store calls, each step
\* observed: the environment of a single pipeline run
AllOutcomes ==
    [contents |-> MutatorContents, mutator_faults |-> MutatorFaults,
     judge |-> JudgeEnvs, audits |-> AuditOutputs, critic |-> CriticOutputs,
     gateway |-> GatewayOutcomes, lookup |-> BOOLEAN,
     observe |-> TRUE, inputs |-> FALSE,
     feedback_types |-> FeedbackTypes, feedback_comments |-> FeedbackComments,
     feedback_faults |-> FeedbackFaults, analyses |-> AnalysisOutputs]

\* The environment of the concurrent system: per gateway call one
\* well-formed answer of each meaning and the error, every fault of the
\* store writes that the interleaving of the components depends on
MainOutcomes ==
    [contents |-> {[kind |-> "dict", mutations |-> PyList(ThreeBrains)]},
     mutator_faults |-> {[read_ok |-> TRUE, put_fail |-> 0]},
     judge |-> [reads_ok : {TRUE}, sim_ok : {{1, 2, 3}},
                comparator : {[kind |-> "dict", winner_id |-> 0, reason |-> <<"r">>]},
                compliance : {[kind |-> "dict", passed |-> TRUE,
                               reason |-> <<"compliant">>],
                              [kind |-> "dict", passed |-> FALSE,
                               reason |-> <<"off policy">>]},
                put_ok : BOOLEAN],
     audits |-> {AuditError, AuditText(<<"SAFE">>)},
     critic |-> {[kind |-> "dict", verdict |-> "PASS"],
                 [kind |-> "dict", verdict |-> "FAIL",
                  failure_detail |-> [turn_index |-> <<1>>,
                                      reasoning |-> <<"violates rule1">>]]},
     gateway |-> {<<"ok", "ok", "ok">>, <<"error", "ok", "ok">>},
     lookup |-> {TRUE},
     observe |-> FALSE, inputs |-> FALSE,
     feedback_types |-> {"like", "dislike"},
     feedback_comments |-> {<<"too long">>},
     feedback_faults |-> {"none"},
     analyses |-> {[kind |-> "error"]}]

\* --------------------------------------------------- pipeline actions
\* The orchestrator starts a run for a Critic failure event
StartRun(r, e, E) ==
    /\ runs[r].pc = "idle"
    /\ \A r2 \in RunIds : r2 < r => runs[r2].pc # "idle"
    /\ events[e].source = "ai.critic" /\ ~events[e].taken
    /\ events' = [events EXCEPT ![e].taken = TRUE]
    /\ runs' = [runs EXCEPT ![r] = [IdleRun EXCEPT !.pc = "mutator",
                                                   !.detail = events[e].detail]]
    /\ last' = Seen(E, [op |-> "StartRun", id |-> r])
    /\ UNCHANGED <<table, now, reqs, feedbacks>>

\* One Mutator invocation and the orchestrator's transition after it
MutatorStep(r, E) ==
    /\ runs[r].pc = "mutator"
    /\ \E content \in E.contents, f \in E.mutator_faults :
        LET run == runs[r]
            out == Mutator_lambda_handler(table, run.detail, run.retryCount,
                                          content, f.read_ok, f.put_fail)
            call == [retryCount |-> run.retryCount, written |-> out.written]
        IN  /\ table' = out.table
            /\ runs' = [runs EXCEPT ![r] =
                           [AfterMutator(run, out.result) EXCEPT
                               !.hist = Noted(E, run.hist, call)]]
            /\ last' = Seen(E, [op |-> "Mutator", id |-> r,
                                retry_count |-> run.retryCount,
                                content |-> IF f.read_ok THEN content
                                            ELSE [kind |-> "uncalled"],
                                store_fault |-> out.store_fault])
    /\ UNCHANGED <<now, reqs, events, feedbacks>>

\* One Judge invocation and the orchestrator's transition after it
JudgeStep(r, E) ==
    /\ runs[r].pc = "judge"
    /\ \E e \in E.judge :
        LET run == runs[r]
            env == e @@ [uuid |-> <<r, run.retryCount, "J">>, clock |-> now]
            out == Judge_lambda_handler(table, run.detail,
                       Get(run.mutatorResult, "challenger_sks", <<>>),
                       run.retryCount, env)
        IN  /\ table' = out.table
            /\ runs' = [runs EXCEPT ![r] =
                    [AfterJudge(run, out.result) EXCEPT
                        !.failedAt = IF IsRaised(out.result) \/ out.hf
                                     THEN Noted(E, run.failedAt,
                                            [stage |-> "Judge", retryCount |-> run.retryCount])
                                     ELSE run.failedAt]]
            /\ last' = Seen(E, [op |-> "Judge", id |-> r,
                                retry_count |-> run.retryCount,
                                reads_ok |-> e.reads_ok, hf |-> out.hf,
                                ticket_put_ok |-> (JudgeTerminal(out.result) => e.put_ok)]
                               @@ (IF E.inputs
                                   THEN [challenger_sks |-> Get(run.mutatorResult, "challenger_sks", <<>>),
                                         sim_ok |-> e.sim_ok,
                                         comparator |-> e.comparator,
                                         compliance |-> e.compliance,
                                         context |->
                                            IF e.reads_ok /\ GetItem(table, run.detail.genome_sk) # None
                                                 /\ GetItem(table, judge_chat_sk(run.detail)) # None
                                            THEN evaluation_context(table[judge_chat_sk(run.detail)])
                                            ELSE NoResult]
                                   ELSE [x \in {} |-> None]))
    /\ UNCHANGED <<now, reqs, events, feedbacks>>

\* The readings datetime.utcnow() can give at the minting of run r's new
\* version: later than every earlier reading, or equal to the reading of a
\* promotion that is in flight at the same time
ClockReadings(r) ==
    {now + 1} \cup
    (IF \E r2 \in RunIds \ {r} :
            runs[r2].pc = "sup_pointer" /\ runs[r2].sup.new_version_sk = VersionSK(now)
     THEN {now} ELSE {})

\* What the Supervisor does not get to: the audit is not called
AuditNotRun == [kind |-> "uncalled"]

\* The winner as the Supervisor holds it: sanitize_for_json(get_item(...))
sanitized_item(item) ==
    IF item = None THEN None
    ELSE [f \in DOMAIN item |->
            IF f \in {"config", "economics"} THEN sanitize_for_json(item[f])
            ELSE item[f]]

\* The Supervisor invocation up to and including the put_item of the new
\* GenomeVersion (steps 1 to 6, first write).
\*   winner_read: get_item of the winner does not fail
\*   put_ok: the put_item of the genome does not raise
\*   ticket_ok: the put_item of a ticket does not raise
SupervisorStart(r, E) ==
    /\ runs[r].pc = "supervisor"
    /\ \E audit \in E.audits, winner_read \in BOOLEAN, put_ok \in BOOLEAN,
          ticket_ok \in BOOLEAN, now_iso \in ClockReadings(r) :
        LET run == runs[r]
            detail == run.detail
            genome_sk == Get(detail, "genome_sk", None)
            chat_sk == Get(detail, "chat_sk", None)
            retry_count == run.retryCount
            judge_result == run.judgeResult
            winner_sk == Get(judge_result, "selected_challenger_sk", None)
            promotion_reason == Get(judge_result, "reason", <<"Evolutionary Improvement">>)
            winner_item == IF winner_read /\ winner_sk # None
                           THEN sanitized_item(GetItem(table, winner_sk)) ELSE None
            safety_check == validate_genome_safety(winner_item, audit)
            audit_called == /\ winner_item # None
                            /\ safety_check.reason
                                 # <<"Structural Corruption: Missing Brain/Persona">>
            genome == genome_item_db(new_genome(winner_item, genome_sk, promotion_reason,
                                                now_iso, <<r, retry_count, "V">>))
            fail(reason, failed_challenger, clock) ==
                Supervisor_handle_failure(table, genome_sk, chat_sk, retry_count, reason,
                                          failed_challenger, <<r, retry_count, "T">>,
                                          clock, ticket_ok)
            step ==
                IF winner_sk = None
                THEN [table |-> table, now |-> now, hf |-> FALSE, wrote |-> FALSE,
                      result |-> [status |-> "FAILED", error |-> "Missing required keys",
                                  compliant |-> FALSE]]
                ELSE IF winner_item = None
                THEN fail(<<"Winner SK ", winner_sk, " not found in DB.">>, None, now)
                     @@ [now |-> now, hf |-> TRUE, wrote |-> FALSE]
                ELSE IF ~safety_check.safe
                THEN fail(<<"Supervisor Safety Protocol Violation: ">> \o safety_check.reason,
                          winner_sk, now)
                     @@ [now |-> now, hf |-> TRUE, wrote |-> FALSE]
                ELSE IF ~put_ok
                THEN fail(<<"DB Write Failed: ">>, None, now_iso)
                     @@ [now |-> now_iso, hf |-> TRUE, wrote |-> FALSE]
                ELSE [table |-> PutItem(table, genome), now |-> now_iso, hf |-> FALSE,
                      wrote |-> TRUE, result |-> NoResult]
            minted == winner_item # None /\ safety_check.safe
            ticketed == step.hf /\ SupervisorTerminal(step.result)
            seen_audit == IF audit_called THEN audit ELSE AuditNotRun
        IN  /\ table' = step.table
            /\ now' = step.now
            /\ runs' = [runs EXCEPT ![r] =
                    IF step.wrote
                    THEN [run EXCEPT !.pc = "sup_pointer",
                                     !.sup = [new_version_sk |-> genome.SK,
                                              now_iso |-> now_iso,
                                              winner_sk |-> winner_sk,
                                              promotion_reason |-> promotion_reason,
                                              audit |-> seen_audit]]
                    ELSE [AfterSupervisor(run, step.result) EXCEPT
                            !.failedAt = Noted(E, run.failedAt,
                                [stage |-> "Supervisor", retryCount |-> retry_count])]]
            /\ last' = Seen(E, [op |-> "SupervisorStart", id |-> r,
                                retry_count |-> retry_count,
                                winner_read |-> winner_read,
                                audit |-> seen_audit,
                                genome_put_ok |-> (minted => put_ok),
                                pointer_put_ok |-> TRUE,
                                hf |-> step.hf,
                                ticket_put_ok |-> (ticketed => ticket_ok),
                                wrote_genome |-> step.wrote])
    /\ UNCHANGED <<reqs, events, feedbacks>>

\* The rest of the Supervisor invocation: the put_item of the
\* CurrentPointer and the result
SupervisorWritePointer(r, E) ==
    /\ runs[r].pc = "sup_pointer"
    /\ \E put_ok \in BOOLEAN, ticket_ok \in BOOLEAN :
        LET run == runs[r]
            detail == run.detail
            retry_count == run.retryCount
            ptr == pointer_item(run.sup.new_version_sk, run.sup.now_iso)
            out == IF put_ok
                   THEN [table |-> PutItem(table, ptr),
                         result |-> [status |-> "SUCCESS", compliant |-> TRUE,
                                     new_active_version |-> run.sup.new_version_sk,
                                     promotion_reason |-> run.sup.promotion_reason]]
                   ELSE Supervisor_handle_failure(table, Get(detail, "genome_sk", None),
                            Get(detail, "chat_sk", None), retry_count,
                            <<"DB Write Failed: ">>, None, <<r, retry_count, "T">>,
                            now, ticket_ok)
            ticketed == ~put_ok /\ SupervisorTerminal(out.result)
        IN  /\ table' = out.table
            /\ runs' = [runs EXCEPT ![r] =
                    [AfterSupervisor(run, out.result) EXCEPT
                        !.failedAt = IF put_ok THEN run.failedAt
                                     ELSE Noted(E, run.failedAt,
                                        [stage |-> "Supervisor", retryCount |-> retry_count])]]
            /\ last' = Seen(E, [op |-> "SupervisorWritePointer", id |-> r,
                                retry_count |-> retry_count,
                                winner_read |-> TRUE,
                                audit |-> run.sup.audit,
                                genome_put_ok |-> TRUE,
                                pointer_put_ok |-> put_ok,
                                hf |-> ~put_ok,
                                ticket_put_ok |-> (ticketed => ticket_ok),
                                wrote_genome |-> TRUE])
    /\ UNCHANGED <<now, reqs, events, feedbacks>>


\* --------------------------------------------------------------- Critic
\* An optional scalar: <<v>> for the value v, None for null / absent
Some(v) == <<v>>

\* The '#'-separated parts of a sort key alternate between tags (odd
\* positions) and values (even positions: a timestamp, an id, an attempt);
\* a value holds no '#', so '#CHAT#' can only match a tag.
TagPositions(sk) == {i \in 1..Len(sk) : i % 2 = 1}
HasChatPart(sk) == \E i \in TagPositions(sk) : 1 < i /\ i < Len(sk) /\ sk[i] = "CHAT"
\* derive_genome_sk that takes the part before the last '#CHAT#'
derive_genome_sk_last(chat_sk) == SubSeq(chat_sk, 1, (CHOOSE j \in TagPositions(chat_sk) : 1 < j /\ j < Len(chat_sk) /\ chat_sk[j] = "CHAT" /\ \A k \in TagPositions(chat_sk) : (j < k /\ k < Len(chat_sk)) => chat_sk[k] # "CHAT") - 1)

\* derive_genome_sk: the part of the chat sort key before the first '#CHAT#'
derive_genome_sk(chat_sk) ==
    LET i == CHOOSE j \in TagPositions(chat_sk) :
                 /\ 1 < j /\ j < Len(chat_sk) /\ chat_sk[j] = "CHAT"
                 /\ \A k \in TagPositions(chat_sk) : (1 < k /\ k < j) => chat_sk[k] # "CHAT"
    IN  SubSeq(chat_sk, 1, i - 1)

\* A write that replaces the item by the named attributes
UpdateItem_put(tbl, sk, attrs) == (sk :> (attrs @@ [SK |-> sk])) @@ tbl

\* table.update_item with a SET expression: the named attributes are set
\* on the item, which is created when the key is absent
UpdateItem(tbl, sk, attrs) ==
    LET old == IF sk \in DOMAIN tbl THEN tbl[sk] ELSE [SK |-> sk]
    IN  (sk :> (attrs @@ old)) @@ tbl

\* call_bedrock without the check that critic_rules is not empty
call_bedrock_unruled(genome_item, output) ==
    IF output.kind = "error" THEN [ok |-> FALSE]
    ELSE IF ~Has(output, "verdict") \/ output.verdict \notin {"PASS", "FAIL"}
    THEN [ok |-> FALSE]
    ELSE [ok |-> TRUE, result |-> output]

\* call_bedrock: the verdict object, or a raise
call_bedrock(genome_item, output) ==
    LET evolution_config == Get(genome_item, "evolution_config", [x \in {} |-> None])
        critic_rules == Get(evolution_config, "critic_rules", <<>>)
    IN  IF critic_rules = <<>> THEN [ok |-> FALSE]
        ELSE IF output.kind = "error" THEN [ok |-> FALSE]
        ELSE IF ~Has(output, "verdict") \/ output.verdict \notin {"PASS", "FAIL"}
        THEN [ok |-> FALSE]
        ELSE [ok |-> TRUE, result |-> output]

\* update_chat: the attributes the Critic sets on the Chat
critic_attrs(critic_result, clock) ==
    LET verdict == critic_result.verdict
        failure_detail == Get(critic_result, "failure_detail", [x \in {} |-> None])
    IN  [critic_verdict |-> Some(verdict),
         critic_reason |-> IF verdict = "FAIL"
                           THEN Get(failure_detail, "reasoning", None) ELSE None,
         failure_turn_index |-> IF verdict = "FAIL"
                                THEN Get(failure_detail, "turn_index", None) ELSE None,
         updated_at |-> clock]

\* emit_event of the Critic: the detail of the failure event
critic_event_detail(chat_sk, genome_sk, critic_result) ==
    LET failure_detail == Get(critic_result, "failure_detail", [x \in {} |-> None])
    IN  [chat_sk |-> chat_sk, genome_sk |-> genome_sk,
         reason |-> Get(failure_detail, "reasoning", <<"Critic rule violation detected">>)]

\* Critic lambda_handler on the payload's chat_sk.  reads_ok, update_ok,
\* emit_ok: the store reads, the update_item and the put_events do not
\* raise.  The steps in the order of the code: fetch_chat, derive_genome_sk,
\* fetch_genome, call_bedrock, update_chat (which calls .get on the
\* failure_detail of a FAIL verdict before it writes), emit_event.
\* cause: the step that raised, "none" when the invocation returned.
Critic_lambda_handler(tbl, chat_sk, output, reads_ok, update_ok, emit_ok, clock) ==
    LET chat_item == GetItem(tbl, chat_sk)
        genome_sk == derive_genome_sk(chat_sk)
        genome_item == GetItem(tbl, genome_sk)
        called == call_bedrock(genome_item, output)
        cause == IF ~reads_ok THEN "read"
                 ELSE IF chat_item = None THEN "chat"
                 ELSE IF ~HasChatPart(chat_sk) THEN "chat_sk"
                 ELSE IF genome_item = None THEN "genome"
                 ELSE IF ~called.ok THEN "call"
                 ELSE IF called.result.verdict = "FAIL"
                         /\ ~IsDict(Get(called.result, "failure_detail", [x \in {} |-> None]))
                 THEN "failure_detail"
                 ELSE IF ~update_ok THEN "update"
                 ELSE IF called.result.verdict = "FAIL" /\ ~emit_ok THEN "emit"
                 ELSE "none"
        persisted == cause \in {"emit", "none"}
        emitted == cause = "none" /\ called.result.verdict = "FAIL"
    IN  [table |-> IF persisted
                   THEN UpdateItem(tbl, chat_sk, critic_attrs(called.result, clock))
                   ELSE tbl,
         emitted |-> emitted,
         detail |-> IF emitted
                    THEN critic_event_detail(chat_sk, genome_sk, called.result)
                    ELSE NoResult,
         genome_sk |-> IF cause \in {"read", "chat", "chat_sk"} THEN None ELSE genome_sk,
         persisted |-> persisted,
         cause |-> cause]

\* What a step records of a Critic invocation
critic_record(op, id, chat_sk, output, reads_ok, out) ==
    [op |-> op, id |-> id, chat_sk |-> chat_sk,
     output |-> IF reads_ok THEN output ELSE [kind |-> "uncalled"],
     persisted |-> out.persisted, emitted |-> out.emitted,
     raised |-> out.cause # "none", cause |-> out.cause,
     genome_sk |-> out.genome_sk]

\* One Critic invocation, started for a 'response generated' event.
CriticStep(e, E) ==
    /\ e \in 1..Len(events)
    /\ events[e].source = "chat.proxy" /\ ~events[e].taken
    /\ \E output \in E.critic, reads_ok \in BOOLEAN, update_ok \in BOOLEAN,
          emit_ok \in BOOLEAN :
        LET chat_sk == events[e].detail.chat_sk
            out == Critic_lambda_handler(table, chat_sk, output, reads_ok,
                                         update_ok, emit_ok, now)
            taken == [events EXCEPT ![e].taken = TRUE]
        IN  /\ table' = out.table
            /\ events' = IF out.emitted
                         THEN Append(taken, Event("ai.critic", out.detail))
                         ELSE taken
            /\ last' = Seen(E, critic_record("Critic", e, chat_sk, output, reads_ok, out))
    /\ UNCHANGED <<now, runs, reqs, feedbacks>>


\* --------------------------------------------------------- Serving Path
ChatIds == {"c1"}

IdleReq == [pc |-> "idle"]

\* exponential_backoff_retry.  outcomes: what the successive calls of the
\* wrapped operation do, "ok" (it returns), "throttle" (it raises a
\* ClientError with a throttling code) or "error" (it raises anything
\* else).  Returns the number of calls made and how the function ends:
\* "ok", "throttle" or "error" (that exception propagates), or "none"
\* when the loop ends without a call (raise last_exception with None).
RECURSIVE retry_loop(_, _, _)
retry_loop(outcomes, max_retries, attempt) ==
    IF attempt >= max_retries THEN [calls |-> attempt, result |-> "none"]
    ELSE IF outcomes[attempt + 1] = "ok" THEN [calls |-> attempt + 1, result |-> "ok"]
    ELSE IF outcomes[attempt + 1] = "throttle"
    THEN (IF attempt < max_retries - 1
          THEN retry_loop(outcomes, max_retries, attempt + 1)
          ELSE [calls |-> attempt + 1, result |-> "throttle"])
    ELSE [calls |-> attempt + 1, result |-> "error"]

\* exponential_backoff_retry that keeps retrying after any exception
exponential_backoff_retry_eager(outcomes, max_retries) == [calls |-> max_retries, result |-> outcomes[max_retries]]
exponential_backoff_retry(outcomes, max_retries) == retry_loop(outcomes, max_retries, 0)

\* resolve_active_genome without the validation of the config fields
resolve_active_genome_unvalidated(tbl) ==
    LET current == GetItem(tbl, CURRENT)
        active_version_sk == Get(current, "active_version_sk", None)
        genome == GetItem(tbl, active_version_sk)
    IN  IF current = None THEN [ok |-> FALSE]
        ELSE IF active_version_sk = None THEN [ok |-> FALSE]
        ELSE IF genome = None THEN [ok |-> FALSE]
        ELSE IF \E section \in {"config", "brain", "resources"} : ~Has(genome, section)
        THEN [ok |-> FALSE]
        ELSE [ok |-> TRUE, genome |-> genome]

\* resolve_active_genome: the genome, or the failure it raises
resolve_active_genome(tbl) ==
    LET current == GetItem(tbl, CURRENT)
        active_version_sk == Get(current, "active_version_sk", None)
        genome == GetItem(tbl, active_version_sk)
        config == Get(genome, "config", [x \in {} |-> None])
    IN  IF current = None THEN [ok |-> FALSE]
        ELSE IF active_version_sk = None THEN [ok |-> FALSE]
        ELSE IF genome = None THEN [ok |-> FALSE]
        ELSE IF \E section \in {"config", "brain", "resources"} : ~Has(genome, section)
        THEN [ok |-> FALSE]
        ELSE IF \E field \in {"model_id", "temperature", "max_tokens"} : ~Has(config, field)
        THEN [ok |-> FALSE]
        ELSE [ok |-> TRUE, genome |-> genome]

\* get_chat_history: transcript and critic verdict of the conversation;
\* empty and None when the chat is absent or the read fails
get_chat_history(tbl, version_sk, chat_id, read_ok) ==
    LET item == GetItem(tbl, ChatSK(version_sk, chat_id))
    IN  IF ~read_ok \/ item = None
        THEN [transcript |-> <<>>, critic_verdict |-> None]
        ELSE [transcript |-> Get(item, "transcript", <<>>),
              critic_verdict |-> Get(item, "critic_verdict", None)]

\* The model id the Serving Path invokes
proxy_model_id(config) ==
    LET model_id == Get(config, "model_id", None)
    IN  IF model_id = <<"amazon.nova", "-premier-v1:0">>
        THEN <<"us.", "amazon.nova", "-premier-v1:0">>
        ELSE model_id

\* A Serving Path request up to the loading of the chat history (steps 1, 2).
\*   lookup_ok: the reads of the two-step lookup do not raise (a raise
\*   ends the request in the handler's last except clause)
\*   read_ok: the read of the chat does not raise
\* overlapped (observation): another request on the same conversation was
\* in flight at some moment of this one.  read_ok is kept as an observation.
ProxyStart(q, chat_id, E) ==
    /\ reqs[q].pc = "idle"
    /\ \A q2 \in ReqIds : q2 < q => reqs[q2].pc # "idle"
    /\ \E lookup_ok \in E.lookup, read_ok \in BOOLEAN :
        LET resolved == resolve_active_genome(table)
            version_sk == resolved.genome.SK
            history == get_chat_history(table, version_sk, chat_id, read_ok)
            others == {q2 \in ReqIds \ {q} :
                          /\ E.observe /\ lookup_ok /\ resolved.ok
                          /\ reqs[q2].pc = "resolved"
                          /\ reqs[q2].chat_id = chat_id
                          /\ reqs[q2].version_sk = version_sk}
        IN  /\ reqs' = [q2 \in ReqIds |->
                    IF q2 = q
                    THEN (IF ~lookup_ok
                          THEN [pc |-> "done", statusCode |-> 500]
                          ELSE IF ~resolved.ok
                          THEN [pc |-> "done", statusCode |-> 404]
                          ELSE [pc |-> "resolved", chat_id |-> chat_id,
                                version_sk |-> version_sk,
                                model_id |-> proxy_model_id(resolved.genome.config),
                                existing_transcript |-> history.transcript,
                                critic_verdict |-> history.critic_verdict,
                                read_ok |-> (E.observe => read_ok),
                                overlapped |-> others # {}])
                    ELSE IF q2 \in others THEN [reqs[q2] EXCEPT !.overlapped = TRUE]
                    ELSE reqs[q2]]
            /\ last' = Seen(E, [op |-> "ProxyStart", id |-> q,
                                lookup_ok |-> lookup_ok,
                                resolved |-> lookup_ok /\ resolved.ok,
                                read_ok |-> ((lookup_ok /\ resolved.ok) => read_ok)])
    /\ UNCHANGED <<table, now, runs, events, feedbacks>>

\* A transcript write that stores the new turns only
updated_transcript_fresh(existing_transcript, user_message, assistant_response) == <<[role |-> "user", content |-> user_message], [role |-> "assistant", content |-> assistant_response]>>

\* store_chat_transcript: the attributes the Serving Path sets on the Chat
updated_transcript(existing_transcript, user_message, assistant_response) ==
    existing_transcript \o <<[role |-> "user", content |-> user_message],
                             [role |-> "assistant", content |-> assistant_response]>>

\* The condition of step 8 under which emit_event is called, on the critic
\* verdict loaded in step 2
emit_condition_always(critic_verdict) == TRUE
emit_condition(critic_verdict) == critic_verdict = None \/ critic_verdict = Some("PASS")

\* The rest of the request: the gateway call, the transcript write and the
\* event (steps 3 to 9).
\*   outcomes: what the calls of invoke_bedrock's retry loop do
\*   store_ok, emit_ok: update_item and put_events do not raise (a raise
\*   is logged and swallowed); stored keeps store_ok as an observation
ProxyFinish(q, E) ==
    /\ reqs[q].pc = "resolved"
    /\ \E outcomes \in E.gateway, store_ok \in BOOLEAN, emit_ok \in BOOLEAN :
        LET req == reqs[q]
            invoked == exponential_backoff_retry(outcomes, MaxRetries)
            gateway_ok == invoked.result = "ok"
            user_message == <<"message", q>>
            assistant_response == <<"reply", q>>
            chat_sk == ChatSK(req.version_sk, req.chat_id)
            attrs == [transcript |-> updated_transcript(req.existing_transcript,
                                        user_message, assistant_response),
                      updated_at |-> now]
            emit_called == emit_condition(req.critic_verdict)
            emits == emit_called /\ emit_ok
        IN  /\ IF ~gateway_ok
               THEN /\ table' = table /\ events' = events
                    /\ reqs' = [reqs EXCEPT ![q] = [pc |-> "done", statusCode |-> 500]]
               ELSE /\ table' = IF store_ok THEN UpdateItem(table, chat_sk, attrs) ELSE table
                    /\ events' = IF emits
                                 THEN Append(events, Event("chat.proxy", [chat_sk |-> chat_sk]))
                                 ELSE events
                    /\ reqs' = [reqs EXCEPT ![q] =
                                   [pc |-> "done", statusCode |-> 200,
                                    response |-> assistant_response,
                                    stored |-> (E.observe => store_ok)]]
            /\ last' = Seen(E, [op |-> "ProxyFinish", id |-> q,
                                chat_sk |-> chat_sk,
                                outcomes |-> SubSeq(outcomes, 1, invoked.calls),
                                calls |-> invoked.calls,
                                result |-> invoked.result,
                                gateway_ok |-> gateway_ok,
                                store_ok |-> (gateway_ok => store_ok),
                                emit_ok |-> (gateway_ok => emit_ok),
                                critic_verdict |-> req.critic_verdict,
                                read_transcript |-> req.existing_transcript,
                                read_ok |-> req.read_ok,
                                overlapped |-> req.overlapped,
                                emit_called |-> gateway_ok /\ emit_called])
    /\ UNCHANGED <<now, runs, feedbacks>>

\* ------------------------------------------------------ feedback handler
\* int() of a stored number: the fraction is dropped
py_int(n) == (n.v \div 10) * 10

\* update_item SET economics.<counter> = :v.  The path is invalid, and the
\* call raises, when the item has no economics map
SetCounter(tbl, sk, counter, n) ==
    [tbl EXCEPT ![sk] = [@ EXCEPT !.economics = (counter :> n) @@ @]]

\* The ai_analysis of the ticket
ai_analysis_of(analysis) ==
    IF analysis.kind = "error" \/ analysis.text = <<"NOT_POSSIBLE">>
    THEN <<"No actionable fix identified">> ELSE analysis.text

\* lambda_handler of the feedback handler.  Any exception is caught by the
\* outer handler and answered with 500; the writes made before it stay.
Feedback_lambda_handler(tbl, chat_id, feedback_type, feedback_comment, fault, analysis, uuid, clock) ==
    LET current == GetItem(tbl, CURRENT)
        active_version_sk == current.active_version_sk
        genome == GetItem(tbl, active_version_sk)
        counter == IF feedback_type = "like" THEN "likes" ELSE "dislikes"
        counted == feedback_type \in {"like", "dislike"}
        current_count == IF Has(genome, "economics") /\ Has(genome.economics, counter)
                         THEN py_int(genome.economics[counter]) ELSE 0
        after_update == IF counted
                        THEN SetCounter(tbl, active_version_sk, counter, Dec(current_count + 10))
                        ELSE tbl
        chat_sk == ChatSK(active_version_sk, chat_id)
        ticket_sk == TicketSK(active_version_sk, TicketId("", uuid))
        ticket_item ==
            [SK |-> ticket_sk,
             EntityType |-> "Ticket",
             timestamp |-> clock,
             type |-> "USER",
             status |-> "OPEN",
             chat_sk |-> chat_sk,
             challenger_sk |-> <<"NA">>,
             feedback |-> IF feedback_comment # <<>> THEN feedback_comment
                          ELSE <<"User disliked response">>,
             ai_analysis |-> ai_analysis_of(analysis)]
    IN  IF fault = "read" THEN [table |-> tbl, statusCode |-> 500]
        ELSE IF current = None THEN [table |-> tbl, statusCode |-> 404]
        ELSE IF ~Has(current, "active_version_sk") THEN [table |-> tbl, statusCode |-> 500]
        ELSE IF genome = None THEN [table |-> tbl, statusCode |-> 404]
        ELSE IF counted /\ (fault = "update" \/ ~Has(genome, "economics"))
        THEN [table |-> tbl, statusCode |-> 500]
        ELSE IF fault = "chat_read" THEN [table |-> after_update, statusCode |-> 500]
        ELSE IF feedback_type # "dislike" THEN [table |-> after_update, statusCode |-> 200]
        ELSE IF fault = "put" THEN [table |-> after_update, statusCode |-> 500]
        ELSE [table |-> PutItem(after_update, ticket_item), statusCode |-> 200]

\* One feedback request
FeedbackStep(E) ==
    /\ feedbacks < MaxFeedback
    /\ \E chat_id \in ChatIds, feedback_type \in E.feedback_types,
          feedback_comment \in E.feedback_comments, fault \in E.feedback_faults,
          analysis \in E.analyses :
        LET out == Feedback_lambda_handler(table, chat_id, feedback_type, feedback_comment,
                                           fault, analysis, <<feedbacks + 1, 0, "F">>, now)
        IN  /\ table' = out.table
            /\ last' = Seen(E, [op |-> "Feedback", id |-> feedbacks + 1,
                                feedback_type |-> feedback_type, fault |-> fault,
                                statusCode |-> out.statusCode])
    /\ feedbacks' = feedbacks + 1
    /\ UNCHANGED <<now, runs, reqs, events>>

\* ---------------------------------------------------------------- spec
Init ==
    /\ table = (V1_SK :> SeedGenome) @@ (CURRENT :> SeedPointer)
    /\ now = 0
    /\ runs = [r \in RunIds |-> IdleRun]
    /\ reqs = [q \in ReqIds |-> IdleReq]
    /\ events = <<>>
    /\ feedbacks = 0
    /\ last = [op |-> "Init", id |-> 0]

\* The concurrent system: Serving Path requests, Critic invocations and
\* pipeline runs interleave freely
Next ==
    \/ \E q \in ReqIds, c \in ChatIds : ProxyStart(q, c, MainOutcomes)
    \/ \E q \in ReqIds : ProxyFinish(q, MainOutcomes)
    \/ \E e \in 1..Len(events) : CriticStep(e, MainOutcomes)
    \/ \E r \in RunIds, e \in 1..Len(events) : StartRun(r, e, MainOutcomes)
    \/ \E r \in RunIds : MutatorStep(r, MainOutcomes)
    \/ \E r \in RunIds : JudgeStep(r, MainOutcomes)
    \/ \E r \in RunIds : SupervisorStart(r, MainOutcomes)
    \/ \E r \in RunIds : SupervisorWritePointer(r, MainOutcomes)

Spec == Init /\ [][Next]_vars

\* One conversation and the pipeline run its failure starts, every outcome
\* of every call, each step observed
FirstOnly == {1}

NextRun ==
    \/ \E q \in FirstOnly, c \in ChatIds : ProxyStart(q, c, AllOutcomes)
    \/ \E q \in FirstOnly : ProxyFinish(q, AllOutcomes)
    \/ \E e \in 1..Len(events) : CriticStep(e, AllOutcomes)
    \/ \E r \in FirstOnly, e \in 1..Len(events) : StartRun(r, e, AllOutcomes)
    \/ \E r \in FirstOnly : MutatorStep(r, AllOutcomes)
    \/ \E r \in FirstOnly : JudgeStep(r, AllOutcomes)
    \/ \E r \in FirstOnly : SupervisorStart(r, AllOutcomes)
    \/ \E r \in FirstOnly : SupervisorWritePointer(r, AllOutcomes)

SpecRun == Init /\ [][NextRun]_vars

\* One pipeline run with every outcome of the Judge's calls, the other
\* components in the environment of the concurrent system; each step
\* observed, the Judge's together with what its calls produced
JudgeOutcomes ==
    [MainOutcomes EXCEPT
        !.judge = [reads_ok : BOOLEAN, sim_ok : SimOkSets, comparator : ComparatorOutputs,
                   compliance : ComplianceOutputs \cup CompliancePassedTexts,
                   put_ok : BOOLEAN],
        !.observe = TRUE, !.inputs = TRUE]

NextJudge ==
    \/ \E q \in FirstOnly, c \in ChatIds : ProxyStart(q, c, JudgeOutcomes)
    \/ \E q \in FirstOnly : ProxyFinish(q, JudgeOutcomes)
    \/ \E e \in 1..Len(events) : CriticStep(e, JudgeOutcomes)
    \/ \E r \in FirstOnly, e \in 1..Len(events) : StartRun(r, e, JudgeOutcomes)
    \/ \E r \in FirstOnly : MutatorStep(r, JudgeOutcomes)
    \/ \E r \in FirstOnly : JudgeStep(r, JudgeOutcomes)
    \/ \E r \in FirstOnly : SupervisorStart(r, JudgeOutcomes)
    \/ \E r \in FirstOnly : SupervisorWritePointer(r, JudgeOutcomes)

SpecJudge == Init /\ [][NextJudge]_vars

\* ------------------------------------------ conversations and stores
\* The conversation the seeding script stores under the seeded version:
\* two turns, judged FAIL, without a failure_turn_index
SeedChatId == "abc-123"
SeedChat ==
    [SK |-> ChatSK(V1_SK, SeedChatId),
     EntityType |-> "Chat",
     transcript |-> <<[role |-> "user", content |-> <<"too expensive">>],
                      [role |-> "assistant", content |-> <<"50% off">>]>>,
     critic_verdict |-> Some("FAIL"),
     critic_reason |-> <<"Policy Violation: Discount > 10% offered.">>]

Without(d, k) == [f \in DOMAIN d \ {k} |-> d[f]]
StoreOf(items) == [sk \in {i.SK : i \in items} |-> CHOOSE i \in items : i.SK = sk]

\* The stores a Serving Path request or a Critic invocation can find:
\* the seeded lineage with and without its conversation, and the lineages
\* on which the two-step lookup or the Critic's checks fail
Seeded == StoreOf({SeedPointer, SeedGenome})
SeededWithChat == StoreOf({SeedPointer, SeedGenome, SeedChat})
BrokenStores ==
    { StoreOf({SeedGenome}),
      StoreOf({Without(SeedPointer, "active_version_sk"), SeedGenome}),
      StoreOf({SeedPointer, SeedChat}) }
    \cup { StoreOf({SeedPointer, Without(SeedGenome, section)}) :
              section \in {"config", "brain", "resources"} }
    \cup { StoreOf({SeedPointer, [SeedGenome EXCEPT !.config = Without(@, field)]}) :
              field \in {"model_id", "temperature", "max_tokens"} }
NoRulesStore ==
    StoreOf({SeedPointer, SeedChat,
             [SeedGenome EXCEPT !.evolution_config.critic_rules = <<>>]})
ChatStores == {Seeded, SeededWithChat, NoRulesStore} \cup BrokenStores

\* The chat_sk of the payload of a direct Critic invocation: the seeded
\* conversation's key, and a key without '#CHAT#' (that of the genome)
CriticPayloads == {ChatSK(V1_SK, SeedChatId), V1_SK}
\* Direct Critic invocations are taken while the bus holds fewer events
MaxEvents == 2

\* The store or bus call of a Critic invocation that raises, if any
CriticFaults == {"none", "read", "update", "emit"}

\* One Critic invocation with a payload given directly (event.get('detail',
\* event) takes the event itself as the payload)
CriticInvoke(chat_sk, E) ==
    /\ Len(events) < MaxEvents
    /\ \E output \in E.critic, fault \in CriticFaults :
        LET reads_ok == fault # "read"
            out == Critic_lambda_handler(table, chat_sk, output, reads_ok,
                                         fault # "update", fault # "emit", now)
        IN  /\ table' = out.table
            /\ events' = IF out.emitted
                         THEN Append(events, Event("ai.critic", out.detail))
                         ELSE events
            /\ last' = Seen(E, critic_record("CriticInvoke", 0, chat_sk, output,
                                             reads_ok, out))
    /\ UNCHANGED <<now, runs, reqs, feedbacks>>

\* The environment of the conversations: of the Critic's model call the
\* error, the outputs without a valid verdict, and one well-formed output
\* per verdict; every outcome of the other calls; each step observed
ChatOutcomes ==
    [AllOutcomes EXCEPT !.critic =
        { [kind |-> "error"],
          [kind |-> "dict"],
          [kind |-> "dict", verdict |-> "MAYBE"],
          [kind |-> "dict", verdict |-> "PASS"],
          [kind |-> "dict", verdict |-> "FAIL",
           failure_detail |-> [turn_index |-> <<1>>,
                               reasoning |-> <<"violates rule1">>]] }]

\* Serving Path requests and Critic invocations on one conversation, over
\* every store, each step observed
InitChat ==
    /\ table \in ChatStores
    /\ now = 0
    /\ runs = [r \in RunIds |-> IdleRun]
    /\ reqs = [q \in ReqIds |-> IdleReq]
    /\ events = <<>>
    /\ feedbacks = 0
    /\ last = [op |-> "Init", id |-> 0]

NextChat ==
    \/ \E q \in ReqIds : ProxyStart(q, SeedChatId, ChatOutcomes)
    \/ \E q \in ReqIds : ProxyFinish(q, ChatOutcomes)
    \/ \E e \in 1..Len(events) : CriticStep(e, ChatOutcomes)
    \/ \E c \in CriticPayloads : CriticInvoke(c, ChatOutcomes)

SpecChat == InitChat /\ [][NextChat]_vars

\* The environment of the runs that feedback interleaves with: every call
\* answers, the Critic fails the conversation, the Judge and the audit pass
FeedbackOutcomes ==
    [MainOutcomes EXCEPT
        !.judge = [reads_ok : {TRUE}, sim_ok : {{1, 2, 3}},
                   comparator : {[kind |-> "dict", winner_id |-> 0, reason |-> <<"r">>]},
                   compliance : {[kind |-> "dict", passed |-> TRUE, reason |-> <<"compliant">>]},
                   put_ok : {TRUE}],
        !.audits = {AuditText(<<"SAFE">>)},
        !.critic = {[kind |-> "dict", verdict |-> "FAIL",
                     failure_detail |-> [turn_index |-> <<1>>,
                                         reasoning |-> <<"violates rule1">>]]},
        !.gateway = {<<"ok", "ok", "ok">>}]

\* The concurrent system with feedback requests on the active version: the
\* requests, the pipeline runs their failures start, likes and dislikes
NextFeedback ==
    \/ \E q \in ReqIds, c \in ChatIds : ProxyStart(q, c, FeedbackOutcomes)
    \/ \E q \in ReqIds : ProxyFinish(q, FeedbackOutcomes)
    \/ \E e \in 1..Len(events) : CriticStep(e, FeedbackOutcomes)
    \/ \E r \in RunIds, e \in 1..Len(events) : StartRun(r, e, FeedbackOutcomes)
    \/ \E r \in RunIds : MutatorStep(r, FeedbackOutcomes)
    \/ \E r \in RunIds : JudgeStep(r, FeedbackOutcomes)
    \/ \E r \in RunIds : SupervisorStart(r, FeedbackOutcomes)
    \/ \E r \in RunIds : SupervisorWritePointer(r, FeedbackOutcomes)
    \/ FeedbackStep(FeedbackOutcomes)

SpecFeedback == Init /\ [][NextFeedback]_vars

\* The model ids a lineage can be configured with: the approved ids of the
\* admin pages, the seeding scripts' ids, and Bedrock ids of the Nova family
\* without the region prefix
ModelIds ==
    {<<"us.", "amazon.nova", "-premier-v1:0">>,
     <<"amazon.nova", "-premier-v1:0">>,
     <<"amazon.nova", "-lite-v1:0">>,
     <<"meta.llama3", "-70b-instruct-v1:0">>,
     <<"anthropic.claude", "-3-haiku-20240307-v1:0">>}

\* One conversation and its pipeline run on a lineage seeded with any of
\* the model ids; each step observed
ModelOutcomes == [MainOutcomes EXCEPT !.observe = TRUE, !.inputs = TRUE]

InitModels ==
    /\ \E model_id \in ModelIds :
          table = (V1_SK :> [SeedGenome EXCEPT !.config.model_id = model_id])
                  @@ (CURRENT :> SeedPointer)
    /\ now = 0
    /\ runs = [r \in RunIds |-> IdleRun]
    /\ reqs = [q \in ReqIds |-> IdleReq]
    /\ events = <<>>
    /\ feedbacks = 0
    /\ last = [op |-> "Init", id |-> 0]

NextModels ==
    \/ \E q \in ReqIds, c \in ChatIds : ProxyStart(q, c, ModelOutcomes)
    \/ \E q \in ReqIds : ProxyFinish(q, ModelOutcomes)
    \/ \E e \in 1..Len(events) : CriticStep(e, ModelOutcomes)
    \/ \E r \in FirstOnly, e \in 1..Len(events) : StartRun(r, e, ModelOutcomes)
    \/ \E r \in FirstOnly : MutatorStep(r, ModelOutcomes)
    \/ \E r \in FirstOnly : JudgeStep(r, ModelOutcomes)
    \/ \E r \in FirstOnly : SupervisorStart(r, ModelOutcomes)
    \/ \E r \in FirstOnly : SupervisorWritePointer(r, ModelOutcomes)

SpecModels == InitModels /\ [][NextModels]_vars

\* The brains a lineage can be seeded with: personas with and without a
\* tone, empty and filled guideline and style lists, and a brain without a
\* style_guide
FallbackBrains ==
    {[persona |-> persona, style_guide |-> style_guide, objectives |-> <<"o1">>,
      operational_guidelines |-> operational_guidelines] :
        persona \in {[role |-> "Concierge", tone |-> <<"Professional">>],
                     [role |-> "Concierge", tone |-> <<"Warm">>],
                     [role |-> "Concierge"]},
        style_guide \in {<<>>, <<"s1">>},
        operational_guidelines \in {<<>>, <<"g1">>}}
    \cup {[persona |-> [role |-> "Concierge", tone |-> <<"Warm">>],
           objectives |-> <<"o1">>, operational_guidelines |-> <<"g1">>]}

\* One conversation and its pipeline run on a lineage seeded with any of
\* the brains, with every outcome of the Mutator's calls; each step observed
FallbackOutcomes ==
    [MainOutcomes EXCEPT !.contents = MutatorContents,
                         !.mutator_faults = MutatorFaults, !.observe = TRUE]

InitFallback ==
    /\ \E brain \in FallbackBrains :
          table = (V1_SK :> [SeedGenome EXCEPT !.brain = brain]) @@ (CURRENT :> SeedPointer)
    /\ now = 0
    /\ runs = [r \in RunIds |-> IdleRun]
    /\ reqs = [q \in ReqIds |-> IdleReq]
    /\ events = <<>>
    /\ feedbacks = 0
    /\ last = [op |-> "Init", id |-> 0]

NextFallback ==
    \/ \E q \in FirstOnly, c \in ChatIds : ProxyStart(q, c, FallbackOutcomes)
    \/ \E q \in FirstOnly : ProxyFinish(q, FallbackOutcomes)
    \/ \E e \in 1..Len(events) : CriticStep(e, FallbackOutcomes)
    \/ \E r \in FirstOnly, e \in 1..Len(events) : StartRun(r, e, FallbackOutcomes)
    \/ \E r \in FirstOnly : MutatorStep(r, FallbackOutcomes)
    \/ \E r \in FirstOnly : JudgeStep(r, FallbackOutcomes)
    \/ \E r \in FirstOnly : SupervisorStart(r, FallbackOutcomes)
    \/ \E r \in FirstOnly : SupervisorWritePointer(r, FallbackOutcomes)

SpecFallback == InitFallback /\ [][NextFallback]_vars

\* The turn indices the Critic's model can name for a FAIL verdict: turns of
\* the transcript, positions outside it, a negative number, null
TurnIndices == {<<0>>, <<1>>, <<2>>, <<5>>, <<-1>>, None}

\* The conversations of one lineage and the pipeline run of the first
\* failure, with every turn index in the Critic's verdict; each step
\* observed, the Judge's together with its evaluation context
IndexOutcomes ==
    [MainOutcomes EXCEPT
        !.critic = {[kind |-> "dict", verdict |-> "PASS"]} \cup
                   {[kind |-> "dict", verdict |-> "FAIL",
                     failure_detail |-> [turn_index |-> i, reasoning |-> <<"violates rule1">>]] :
                        i \in TurnIndices},
        !.observe = TRUE, !.inputs = TRUE]

NextIndex ==
    \/ \E q \in ReqIds, c \in ChatIds : ProxyStart(q, c, IndexOutcomes)
    \/ \E q \in ReqIds : ProxyFinish(q, IndexOutcomes)
    \/ \E e \in 1..Len(events) : CriticStep(e, IndexOutcomes)
    \/ \E r \in FirstOnly, e \in 1..Len(events) : StartRun(r, e, IndexOutcomes)
    \/ \E r \in FirstOnly : MutatorStep(r, IndexOutcomes)
    \/ \E r \in FirstOnly : JudgeStep(r, IndexOutcomes)
    \/ \E r \in FirstOnly : SupervisorStart(r, IndexOutcomes)
    \/ \E r \in FirstOnly : SupervisorWritePointer(r, IndexOutcomes)

SpecIndex == Init /\ [][NextIndex]_vars

\* Conversations with a plain id and with an id that holds '#CHAT#', on
\* the seeded version and on a promoted one; Critic invocations started by
\* the bus and with a payload given directly; each step observed
KeyChatIds == {"c1", "a#CHAT#b"}
KeyOutcomes == [MainOutcomes EXCEPT !.observe = TRUE]

NextKeys ==
    \/ \E q \in ReqIds, c \in KeyChatIds : ProxyStart(q, c, KeyOutcomes)
    \/ \E q \in ReqIds : ProxyFinish(q, KeyOutcomes)
    \/ \E e \in 1..Len(events) : CriticStep(e, KeyOutcomes)
    \/ \E c \in CriticPayloads : CriticInvoke(c, KeyOutcomes)
    \/ \E r \in FirstOnly, e \in 1..Len(events) : StartRun(r, e, KeyOutcomes)
    \/ \E r \in FirstOnly : MutatorStep(r, KeyOutcomes)
    \/ \E r \in FirstOnly : JudgeStep(r, KeyOutcomes)
    \/ \E r \in FirstOnly : SupervisorStart(r, KeyOutcomes)
    \/ \E r \in FirstOnly : SupervisorWritePointer(r, KeyOutcomes)

SpecKeys == Init /\ [][NextKeys]_vars

\* Two conversations on one version, each judged FAIL for a reason of its
\* own, and the pipeline runs the failures start; every call answers
SharedOutcomes ==
    [FeedbackOutcomes EXCEPT
        !.critic = {[kind |-> "dict", verdict |-> "FAIL",
                     failure_detail |-> [turn_index |-> <<1>>, reasoning |-> <<reason>>]] :
                        reason \in {"violates rule1", "too long"}}]

\* Each request is the first of a conversation of its own
RequestChat(q) == IF q = 1 THEN "c1" ELSE "a#CHAT#b"

NextShared ==
    \/ \E q \in ReqIds : ProxyStart(q, RequestChat(q), SharedOutcomes)
    \/ \E q \in ReqIds : ProxyFinish(q, SharedOutcomes)
    \/ \E e \in 1..Len(events) : CriticStep(e, SharedOutcomes)
    \/ \E r \in RunIds, e \in 1..Len(events) : StartRun(r, e, SharedOutcomes)
    \/ \E r \in RunIds : MutatorStep(r, SharedOutcomes)
    \/ \E r \in RunIds : JudgeStep(r, SharedOutcomes)
    \/ \E r \in RunIds : SupervisorStart(r, SharedOutcomes)
    \/ \E r \in RunIds : SupervisorWritePointer(r, SharedOutcomes)

SpecShared == Init /\ [][NextShared]_vars

\* ------------------------------------------------------------ properties
\* The steps that belong to a Supervisor invocation, and the steps in which
\* the escalation policy (handle_failure) can be called
SupervisorOps == {"SupervisorStart", "SupervisorWritePointer"}
EscalationOps == {"Judge"} \cup SupervisorOps

\* The result returned by the invocation the last step belongs to
LastResult ==
    IF last.op = "Judge" THEN runs[last.id].judgeResult
    ELSE runs[last.id].supervisorResult

\* The last step called handle_failure
Escalated == last.op \in EscalationOps /\ last.hf

\* A failure result that ends the run, and one that asks for another round
TerminalFailure(res) ==
    IF Has(res, "improved")
    THEN ~res.improved /\ Has(res, "ticket_sk")
    ELSE /\ Has(res, "compliant") /\ ~res.compliant /\ Has(res, "reason")
         /\ res.reason[1] = "Final Failure. Ticket Created: "
NonTerminalFailure(res) ==
    IF Has(res, "improved")
    THEN ~res.improved /\ ~Has(res, "ticket_sk")
    ELSE /\ Has(res, "compliant") /\ ~res.compliant /\ ~Has(res, "status")
         /\ res.reason[1] # "Final Failure. Ticket Created: "

\* The sort key of the ticket a terminal failure result names
TicketNamedBy(res, genome_sk) ==
    IF Has(res, "ticket_sk") THEN res.ticket_sk
    ELSE genome_sk \o <<"TICKET", SubSeq(res.reason, 2, 3)>>

\* An OPEN ticket of type SYSTEM for the chat is stored under sk
OpenSystemTicketAt(tbl, sk, chat_sk) ==
    /\ sk \in DOMAIN tbl /\ IsTicketSK(sk)
    /\ tbl[sk].EntityType = "Ticket"
    /\ tbl[sk].status = "OPEN" /\ tbl[sk].type = "SYSTEM"
    /\ tbl[sk].chat_sk = chat_sk

\* The challenger a ticket refers to is one the run's Mutator returned, or
\* the marker for none
TicketChallengerOk(tbl, sk, run) ==
    \/ tbl[sk].challenger_sk \in {<<"NONE_SELECTED">>, <<"NONE">>}
    \/ \E i \in 1..Len(run.mutatorResult.challenger_sks) :
          tbl[sk].challenger_sk = run.mutatorResult.challenger_sks[i]

VersionSKs(tbl) == {sk \in DOMAIN tbl : IsVersionSK(sk)}

\* --- C1
PromotionInFlight == \E r \in RunIds : runs[r].pc = "sup_pointer"

PointerResolvesActive ==
    LET current == GetItem(table, CURRENT)
    IN  /\ current # None /\ Has(current, "active_version_sk")
        /\ LET g == GetItem(table, current.active_version_sk)
           IN  /\ g # None /\ IsVersionSK(g.SK) /\ g.EntityType = "Genome"
               /\ g.metadata.deployment_state = "ACTIVE"

\* C1: in every reachable state of the concurrent system, outside the
\* interval between a Supervisor's GenomeVersion write and its
\* CurrentPointer write, CurrentPointer.active_version_sk names a
\* GenomeVersion that is in the store and has deployment_state ACTIVE.
C1_PointerNamesActiveVersion == ~PromotionInFlight => PointerResolvesActive

\* A Supervisor has repointed the CurrentPointer and no promotion is in flight
C1_Witness ==
    /\ ~PromotionInFlight
    /\ table[CURRENT].active_version_sk # V1_SK
    /\ PointerResolvesActive

\* --- C2
\* C2 (as stated): whenever handle_failure of the Judge or of the
\* Supervisor has been called with retryCount >= 1, the result is a
\* terminal failure and the ticket it names is in the store: OPEN, of type
\* SYSTEM, referring to the chat and to the failed challenger if any.
C2_TicketStoredOnEscalation ==
    (Escalated /\ last.retry_count >= 1) =>
        /\ TerminalFailure(LastResult)
        /\ LET run == runs[last.id]
               sk == TicketNamedBy(LastResult, run.detail.genome_sk)
           IN  /\ OpenSystemTicketAt(table, sk, run.detail.chat_sk)
               /\ TicketChallengerOk(table, sk, run)

\* --- C3
\* The step just taken called handle_failure with retryCount < 1
BelowThresholdStep ==
    /\ last'.op \in EscalationOps /\ last'.hf /\ last'.retry_count < 1

C4_AtMostTwoMutationRounds ==
    \A r \in RunIds :
        /\ Len(runs[r].hist) <= 2
        /\ \A i \in 1..Len(runs[r].hist) : runs[r].hist[i].retryCount = i - 1
        /\ (runs[r].pc = "mutator" => runs[r].retryCount <= 1)

\* A run has gone through two Mutator rounds and has ended
C4_Witness ==
    \E r \in RunIds : Len(runs[r].hist) = 2 /\ runs[r].pc = "done"

\* --- C5
\* C5 (as stated, even with every ticket write accepted by the store and
\* every store read of the Judge answered): a run that has ended and whose
\* Judge or Supervisor stage failed at retryCount >= 1 has left an OPEN
\* ticket for its chat in the store.
C5_FailedRunEndsInTicket ==
    \A r \in RunIds :
        (/\ runs[r].pc = "done"
         /\ \E i \in 1..Len(runs[r].failedAt) : runs[r].failedAt[i].retryCount >= 1
         /\ last.op \in EscalationOps /\ last.id = r /\ last.ticket_put_ok
         /\ (last.op = "Judge" => last.reads_ok))
        => \E sk \in DOMAIN table :
              OpenSystemTicketAt(table, sk, runs[r].detail.chat_sk)

\* --- C6
\* C6 (as stated): a Supervisor invocation whose audit call errors writes
\* no GenomeVersion, leaves the CurrentPointer unchanged and calls
\* handle_failure: the result is non-terminal at retryCount < 1, and at
\* retryCount >= 1 it is terminal and the ticket it names is in the store.
C6_AuditErrorEscalates ==
    [][(last'.op = "SupervisorStart" /\ last'.audit = AuditError) =>
          /\ VersionSKs(table') = VersionSKs(table)
          /\ GetItem(table', CURRENT) = GetItem(table, CURRENT)
          /\ last'.hf
          /\ (last'.retry_count < 1 => NonTerminalFailure(LastResult'))
          /\ (last'.retry_count >= 1 =>
                /\ TerminalFailure(LastResult')
                /\ OpenSystemTicketAt(table',
                       TicketNamedBy(LastResult', runs'[last'.id].detail.genome_sk),
                       runs'[last'.id].detail.chat_sk))]_vars

\* --- C7
\* The Supervisor invocation of the last step has returned
SupervisorReturned ==
    last.op \in SupervisorOps /\ runs[last.id].pc # "sup_pointer"

\* The winner the Judge selected, as it is in the store
WinnerItem == GetItem(table, runs[last.id].judgeResult.selected_challenger_sk)
WinnerSound ==
    /\ WinnerItem # None /\ Has(WinnerItem, "brain")
    /\ Has(WinnerItem.brain, "persona")
    /\ Has(WinnerItem.brain, "operational_guidelines")

\* The audit completed and reports the configuration unsafe / does not
AuditReportsUnsafe(a) ==
    a.kind = "text" /\ ~StartsWith(a.text, "SAFE") /\ Contains(a.text, "VIOLATION")
AuditPasses(a) == a.kind = "text" /\ ~AuditReportsUnsafe(a)

\* The invocation's new version is in the store, ACTIVE, and the
\* CurrentPointer references it
NewVersionPromoted ==
    LET run == runs[last.id]
    IN  /\ run.sup # NoResult
        /\ run.sup.new_version_sk \in DOMAIN table
        /\ table[run.sup.new_version_sk].metadata.deployment_state = "ACTIVE"
        /\ table[CURRENT].active_version_sk = run.sup.new_version_sk

PromotionReturned ==
    /\ SupervisorReturned
    /\ Has(LastResult, "status") /\ LastResult.status = "SUCCESS"

\* C8: when the Supervisor returns a success record, the GenomeVersion it
\* names has brain, config, resources, capabilities and evolution_config
\* equal to those of the winning Challenger, and deployment_state ACTIVE.
C8_PromotedSectionsEqualWinner ==
    PromotionReturned =>
        LET new == GetItem(table, LastResult.new_active_version)
            winner == WinnerItem
        IN  /\ new # None /\ winner # None
            /\ \A s \in {"brain", "config", "resources", "capabilities",
                         "evolution_config"} : new[s] = winner[s]
            /\ new.metadata.deployment_state = "ACTIVE"

\* A promotion has returned whose winner carries a non-integral number
\* (the temperature) in its config
C8_Witness ==
    /\ PromotionReturned
    /\ WinnerItem.config.temperature.v % 10 # 0

\* --- C9
\* C9 (as stated): a Mutator invocation on an existing genome, with no
\* store call failing, returns exactly three challenger identifiers, each
\* naming a Challenger that is in the store, whatever the gateway produced.
C9_MutatorReturnsThreePersisted ==
    (last.op = "Mutator" /\ ~last.store_fault) =>
        LET res == runs[last.id].mutatorResult
        IN  /\ Has(res, "challenger_sks")
            /\ Len(res.challenger_sks) = 3
            /\ \A i \in 1..Len(res.challenger_sks) :
                  /\ res.challenger_sks[i] \in DOMAIN table
                  /\ table[res.challenger_sks[i]].EntityType = "Challenger"

\* --- C10
\* The sort keys a Mutator invocation wrote
WrittenSet(call) == {call.written[k] : k \in 1..Len(call.written)}

ChallengerSKs(tbl) == {sk \in DOMAIN tbl : IsChallengerSK(sk)}
ParentSK(sk) == VersionSK(sk[2])

\* C11: every Challenger in the store is nested under a GenomeVersion that
\* is in the store, and its metadata.parent_hash equals that
\* GenomeVersion's metadata.version_hash.
C11_ParentHashIsParentVersionHash ==
    \A sk \in ChallengerSKs(table) :
        /\ ParentSK(sk) \in DOMAIN table
        /\ Has(table[ParentSK(sk)].metadata, "version_hash")
        /\ table[sk].metadata.parent_hash = table[ParentSK(sk)].metadata.version_hash

\* Challengers are stored under the seeded version and under a version a
\* Supervisor minted
C11_Witness ==
    /\ \E sk \in ChallengerSKs(table) : ParentSK(sk) = V1_SK
    /\ \E sk \in ChallengerSKs(table) :
          /\ ParentSK(sk) # V1_SK
          /\ table[ParentSK(sk)].metadata.creator = "Supervisor_Agent"

\* --- C12
\* The sections the Mutator copies from the parent
CopiedSections == {"config", "resources", "capabilities", "evolution_config"}
\* The sections in which a Challenger may differ from its parent
MutatedSections == {"brain", "metadata", "economics"}

\* C12: every Challenger in the store (all are written by the Mutator) has
\* deployment_state PENDING_APPROVAL and a sort key
\* <parent sort key>#CHALLENGER#attempt-<n> with n in 1..6 under a stored
\* GenomeVersion; it has the parent's sections, its config, resources,
\* capabilities and evolution_config equal the parent's, and apart from
\* its keys and entity type it differs from the parent in brain, metadata
\* and economics only.
C12_ChallengerCopiesParentSections ==
    \A sk \in ChallengerSKs(table) :
        LET c == table[sk]
            parent == GetItem(table, ParentSK(sk))
        IN  /\ c.EntityType = "Challenger"
            /\ c.metadata.deployment_state = "PENDING_APPROVAL"
            /\ c.SK = sk /\ Len(sk) = 4 /\ sk[4] \in 1..6
            /\ parent # None /\ parent.EntityType = "Genome"
            /\ sk = parent.SK \o <<"CHALLENGER", sk[4]>>
            /\ DOMAIN c = DOMAIN parent
            /\ \A s \in CopiedSections : c[s] = parent[s]
            /\ \A s \in DOMAIN c \ (MutatedSections \cup {"SK", "EntityType"}) :
                  c[s] = parent[s]

\* The Mutator has written a Challenger whose parent holds a non-integral
\* number in its config, and whose brain differs from the parent's
C12_Witness ==
    /\ last.op = "Mutator"
    /\ \E sk \in ChallengerSKs(table) :
          /\ table[ParentSK(sk)].config.temperature.v % 10 # 0
          /\ table[sk].brain # table[ParentSK(sk)].brain

\* --- C13
\* The steps that are a Critic invocation
CriticOps == {"Critic", "CriticInvoke"}
\* The verdict the Critic invocation of the last step parsed from the
\* gateway's output: None when it did not get as far as a valid verdict
ParsedVerdict ==
    IF last.cause \in {"read", "chat", "chat_sk", "genome", "call"} THEN None
    ELSE Some(last.output.verdict)
\* A store or bus call of the Critic invocation of the last step raised
CriticInfraFault == last.cause \in {"read", "update", "emit"}
\* The chat sort key without its '#CHAT#<conversationId>' suffix
StripChatSuffix(chat_sk) == SubSeq(chat_sk, 1, Len(chat_sk) - 2)

\* C13 (as stated): a Critic invocation whose store and bus calls succeed
\* emits a failure event if and only if the verdict it parsed is FAIL; the
\* event is emitted only with the verdict persisted on the Chat, and it
\* carries the chat sort key, the genome sort key obtained by stripping
\* '#CHAT#<conversationId>' from it, and a non-empty reason.
C13_EmitsIffFailWithReason ==
    (last.op \in CriticOps /\ ~CriticInfraFault) =>
        /\ last.emitted <=> (ParsedVerdict = Some("FAIL"))
        /\ last.emitted =>
              LET ev == events[Len(events)]
                  chat == GetItem(table, last.chat_sk)
              IN  /\ last.persisted
                  /\ chat # None /\ chat.critic_verdict = Some("FAIL")
                  /\ ev.source = "ai.critic"
                  /\ ev.detail.chat_sk = last.chat_sk
                  /\ ev.detail.genome_sk = StripChatSuffix(last.chat_sk)
                  /\ ev.detail.reason # <<>>

\* --- C14
\* The attributes the Critic sets on a Chat, as far as the item has them
CriticFields == {"critic_verdict", "critic_reason", "failure_turn_index"}
CriticFieldsOf(tbl, sk) ==
    IF sk \in DOMAIN tbl
    THEN [f \in CriticFields \cap DOMAIN tbl[sk] |-> tbl[sk][f]]
    ELSE [f \in {} |-> None]
\* The number of failure events on the bus
FailureEvents(evs) == Cardinality({i \in 1..Len(evs) : evs[i].source = "ai.critic"})

\* The cases in which a Critic invocation on chat_sk must fail, read from
\* the store it runs on and from what the gateway produced
ChatMissing(tbl, chat_sk) == GetItem(tbl, chat_sk) = None
NoChatTag(chat_sk) == \A i \in TagPositions(chat_sk) : chat_sk[i] # "CHAT"
GenomeMissing(tbl, chat_sk) == GetItem(tbl, StripChatSuffix(chat_sk)) = None
NoCriticRules(tbl, chat_sk) ==
    LET g == tbl[StripChatSuffix(chat_sk)]
    IN  ~Has(g, "evolution_config") \/ ~Has(g.evolution_config, "critic_rules")
        \/ g.evolution_config.critic_rules = <<>>
NoValidVerdict(output) ==
    output.kind # "dict" \/ ~Has(output, "verdict")
    \/ output.verdict \notin {"PASS", "FAIL"}
CriticMustFail(tbl, chat_sk, output) ==
    \/ ChatMissing(tbl, chat_sk)
    \/ NoChatTag(chat_sk)
    \/ GenomeMissing(tbl, chat_sk)
    \/ NoCriticRules(tbl, chat_sk)
    \/ NoValidVerdict(output)

\* C14: a Critic invocation whose chat or genome is missing, whose chat
\* sort key has no '#CHAT#', whose genome has no critic_rules, or whose
\* gateway call errors or yields no object with verdict PASS or FAIL,
\* raises, leaves critic_verdict, critic_reason and failure_turn_index of
\* every item as they were, and emits no failure event.
C14_FailedCriticChangesNothing ==
    [][ (last'.op \in CriticOps
           /\ CriticMustFail(table, last'.chat_sk, last'.output)) =>
          /\ last'.raised
          /\ \A sk \in DOMAIN table \cup DOMAIN table' :
                CriticFieldsOf(table', sk) = CriticFieldsOf(table, sk)
          /\ FailureEvents(events') = FailureEvents(events) ]_vars

\* A Critic invocation has failed on a genome without critic_rules although
\* the gateway's output carried a valid verdict, on a conversation that
\* holds a verdict
C14_Witness ==
    /\ last.op \in CriticOps /\ last.raised
    /\ last.output.kind = "dict" /\ ~NoValidVerdict(last.output)
    /\ ~ChatMissing(table, last.chat_sk) /\ ~NoChatTag(last.chat_sk)
    /\ ~GenomeMissing(table, last.chat_sk)
    /\ NoCriticRules(table, last.chat_sk)
    /\ Has(table[last.chat_sk], "critic_verdict")

\* The Serving Path request that finishes in this step, if any
Finishing(q) == reqs[q].pc = "resolved" /\ reqs'[q].pc = "done"
Responded(q) == reqs'[q].statusCode = 200
ProxyEvent(q) == Event("chat.proxy", [chat_sk |-> ChatSK(reqs[q].version_sk, reqs[q].chat_id)])
NewTurns(q) == <<[role |-> "user", content |-> <<"message", q>>], [role |-> "assistant", content |-> <<"reply", q>>]>>
\* The stored transcript of the request's conversation ends with its two turns
EndsWithNewTurns(tbl, q) ==
    LET chat == GetItem(tbl, ChatSK(reqs[q].version_sk, reqs[q].chat_id))
        transcript == Get(chat, "transcript", <<>>)
        n == Len(transcript)
    IN  n >= 2 /\ SubSeq(transcript, n - 1, n) = NewTurns(q)

\* C15: a request that responds puts a 'response generated' event for its
\* conversation on the bus only if the critic verdict it loaded before the
\* gateway call is absent or PASS, and does put it in that case whenever
\* the bus accepts it; with a loaded verdict of FAIL the request still
\* responds whenever the gateway answers, its two turns are appended to
\* the stored transcript whenever the store accepts the write, and the bus
\* is left as it was.  A request that does not respond emits nothing.
C15_EmitsIffVerdictAbsentOrPass ==
    [][\A q \in ReqIds : Finishing(q) =>
          LET v == reqs[q].critic_verdict
              passing == v = None \/ v = Some("PASS")
          IN  /\ ~Responded(q) => events' = events
              /\ Responded(q) /\ events' # events =>
                    passing /\ events' = Append(events, ProxyEvent(q))
              /\ Responded(q) /\ passing /\ last'.emit_ok => events' # events
              /\ ~passing /\ last'.gateway_ok =>
                    /\ Responded(q)
                    /\ events' = events
                    /\ last'.store_ok => EndsWithNewTurns(table', q)]_vars

\* A request answered on a conversation judged FAIL, after an earlier
\* request on it emitted its event
C15_Witness ==
    /\ last.op = "ProxyFinish" /\ last.critic_verdict = Some("FAIL")
    /\ last.gateway_ok /\ last.store_ok
    /\ reqs[last.id].statusCode = 200
    /\ \E e \in 1..Len(events) : events[e].source = "chat.proxy"
    /\ events[Len(events)].source # "chat.proxy"

\* The attributes of an item that the transcript write does not name
TranscriptFields == {"transcript", "updated_at"}
UnnamedFieldsOf(tbl, sk) ==
    IF sk \in DOMAIN tbl
    THEN [f \in DOMAIN tbl[sk] \ (TranscriptFields \cup {"SK"}) |-> tbl[sk][f]]
    ELSE [f \in {} |-> None]

\* C16: the step in which a Serving Path request writes its transcript
\* changes no item other than the request's Chat, and on the Chat nothing
\* but transcript and updated_at: critic_verdict, critic_reason and
\* failure_turn_index (and every other attribute) are present or absent,
\* and valued, as before the write.
C16_TranscriptWriteKeepsCriticFields ==
    [][\A q \in ReqIds : Finishing(q) =>
          LET chat_sk == ChatSK(reqs[q].version_sk, reqs[q].chat_id)
          IN  /\ DOMAIN table' \subseteq DOMAIN table \cup {chat_sk}
              /\ \A sk \in DOMAIN table \ {chat_sk} :
                    sk \in DOMAIN table' /\ table'[sk] = table[sk]
              /\ CriticFieldsOf(table', chat_sk) = CriticFieldsOf(table, chat_sk)
              /\ UnnamedFieldsOf(table', chat_sk) = UnnamedFieldsOf(table, chat_sk)]_vars

\* A transcript write has just landed on a Chat that carries a verdict and
\* a reason
C16_Witness ==
    /\ last.op = "ProxyFinish" /\ last.gateway_ok /\ last.store_ok
    /\ Has(table[last.chat_sk], "critic_verdict")
    /\ Has(table[last.chat_sk], "critic_reason")
    /\ Len(last.read_transcript) >= 2
    /\ table[last.chat_sk].transcript = last.read_transcript \o NewTurns(last.id)

\* The transcript stored for a conversation, empty when there is no Chat
StoredTranscript(tbl, chat_sk) == Get(GetItem(tbl, chat_sk), "transcript", <<>>)

\* C17: when a request that no other request on the same conversation
\* overlapped returns its response, the transcript stored for the
\* conversation is the one stored before the step followed by the
\* request's user turn and assistant turn.
C17_TranscriptOnlyAppended ==
    [][\A q \in ReqIds : (Finishing(q) /\ Responded(q) /\ ~reqs[q].overlapped) =>
          LET chat_sk == ChatSK(reqs[q].version_sk, reqs[q].chat_id)
          IN  StoredTranscript(table', chat_sk) = StoredTranscript(table, chat_sk) \o NewTurns(q)]_vars

\* The lineage has no servable active version: the CurrentPointer is
\* missing or names no version, the version it names is missing, or that
\* version lacks a required section or a required config field
RequiredSections == {"config", "brain", "resources"}
RequiredConfigFields == {"model_id", "temperature", "max_tokens"}
StoreBroken(tbl) ==
    \/ CURRENT \notin DOMAIN tbl
    \/ "active_version_sk" \notin DOMAIN tbl[CURRENT]
    \/ tbl[CURRENT].active_version_sk \notin DOMAIN tbl
    \/ ~(RequiredSections \subseteq DOMAIN tbl[tbl[CURRENT].active_version_sk])
    \/ ~(RequiredConfigFields \subseteq DOMAIN tbl[tbl[CURRENT].active_version_sk].config)

\* The Serving Path request that starts in this step, if any
Starting(q) == reqs[q].pc = "idle" /\ reqs'[q].pc # "idle"

\* C18: a request that starts on a lineage without a servable active
\* version, and whose two lookup reads are answered by the store, ends in
\* that step with status 404: it never reaches the gateway call, and the
\* step leaves the table (every transcript with it) and the bus unchanged.
C18_BrokenLineageIsNotFound ==
    [][\A q \in ReqIds : (Starting(q) /\ last'.lookup_ok /\ StoreBroken(table)) =>
          /\ reqs'[q] = [pc |-> "done", statusCode |-> 404]
          /\ table' = table
          /\ events' = events]_vars

\* A request has ended 404 on a genome whose config lacks max_tokens
C18_Witness ==
    /\ last.op = "ProxyStart" /\ last.lookup_ok
    /\ reqs[last.id] = [pc |-> "done", statusCode |-> 404]
    /\ LET genome == GetItem(table, Get(GetItem(table, CURRENT), "active_version_sk", None))
       IN  /\ RequiredSections \subseteq DOMAIN genome
           /\ "max_tokens" \notin DOMAIN genome.config

\* C19: the retry loop around the gateway call makes between one and
\* MaxRetries calls; every call before the last one ended in a throttling
\* error; it stops at the first call that returns or raises another error
\* and ends as that call ended; it ends in the throttling error only when
\* the MaxRetries-th call was throttled.  When the loop does not end in a
\* returned answer the request ends with status 500 and the step leaves
\* the table (the transcript with it) and the bus unchanged.
C19_RetryBoundedAndGatewayErrorFails ==
    [][\A q \in ReqIds : Finishing(q) =>
          LET n == last'.calls
              outcomes == last'.outcomes
          IN  /\ n \in 1..MaxRetries
              /\ Len(outcomes) = n
              /\ \A i \in 1..(n - 1) : outcomes[i] = "throttle"
              /\ last'.result = outcomes[n]
              /\ outcomes[n] = "throttle" => n = MaxRetries
              /\ outcomes[n] # "ok" =>
                    /\ reqs'[q] = [pc |-> "done", statusCode |-> 500]
                    /\ table' = table
                    /\ events' = events]_vars

\* A request on the stored conversation has failed after MaxRetries
\* throttled calls, and another after one call that raised another error
C19_Witness ==
    /\ last.op = "ProxyFinish" /\ last.calls = MaxRetries /\ last.result = "throttle"
    /\ reqs[last.id] = [pc |-> "done", statusCode |-> 500]
    /\ \E q \in ReqIds \ {last.id} : reqs[q] = [pc |-> "done", statusCode |-> 500]
    /\ last.chat_sk \in DOMAIN table /\ Len(table[last.chat_sk].transcript) = 2
    /\ events = <<>>

\* The failing turn the Judge takes from a Chat can be taken: the stored
\* failure_turn_index (the last turn when there is none) is an integer that
\* indexes the transcript
FailingTurnUsable(chat) ==
    LET transcript == Get(chat, "transcript", <<>>)
        raw_index == Get(chat, "failure_turn_index", <<Len(transcript) - 1>>)
    IN  raw_index # None /\ PyIndexOk(transcript, raw_index[1])

\* C20 (as stated, even for a Chat whose failing turn can be taken): a
\* Judge invocation that has fetched the parent genome and the chat does
\* not raise; it returns either the success record (the winner's
\* identifier and response, a reason, the retry count it was given) or
\* what handle_failure returned.
C20_JudgeAlwaysReturns ==
    (/\ last.op = "Judge" /\ last.reads_ok
     /\ GetItem(table, runs[last.id].detail.genome_sk) # None
     /\ GetItem(table, runs[last.id].detail.chat_sk) # None
     /\ FailingTurnUsable(table[runs[last.id].detail.chat_sk]))
    => LET res == runs[last.id].judgeResult
       IN  /\ ~IsRaised(res)
           /\ \/ last.hf
              \/ /\ res.improved
                 /\ DOMAIN res = {"improved", "selected_challenger_sk",
                                  "improved_response", "reason", "retryCount"}
                 /\ res.retryCount = last.retry_count

\* --- Judge
\* The last step is a Judge invocation that returned a success record
JudgeSucceeded ==
    /\ last.op = "Judge"
    /\ ~IsRaised(runs[last.id].judgeResult)
    /\ runs[last.id].judgeResult.improved

\* The comparator's answer names one of n candidates
NamesCandidate(res, n) ==
    res.kind = "dict" /\ Has(res, "winner_id") /\ res.winner_id \in 0..(n - 1)

\* The challengers of the input list that are in the store and whose
\* simulation succeeded, by position
SimulatedPositions(tbl, challenger_sks, sim_ok) ==
    {i \in 1..Len(challenger_sks) : i \in sim_ok /\ challenger_sks[i] \in DOMAIN tbl}

\* C21: a Judge invocation returns a success record only if the
\* comparator's answer names one of the simulated candidates and the
\* compliance stage's answer is an object whose passed is the boolean
\* true; a compliance answer that is an error, unparsable or without
\* passed gives no success record.
C21_SuccessOnlyIfCompliancePassed ==
    JudgeSucceeded =>
        /\ NamesCandidate(last.comparator,
              Cardinality(SimulatedPositions(table, last.challenger_sks, last.sim_ok)))
        /\ last.compliance.kind = "dict"
        /\ Has(last.compliance, "passed")
        /\ last.compliance.passed = TRUE

\* The k-th challenger, in input order, among those simulated
NthSimulated(tbl, challenger_sks, sim_ok, k) ==
    LET S == SimulatedPositions(tbl, challenger_sks, sim_ok)
    IN  challenger_sks[CHOOSE i \in S : Cardinality({j \in S : j < i}) = k - 1]

\* The Judge's result is that of handle_failure called without a winner
\* (with a ticket that names no challenger once the run is terminal)
NoWinnerResult(tbl, res, ticket_put_ok) ==
    /\ ~IsRaised(res) /\ ~res.improved
    /\ IF JudgeTerminal(res)
       THEN ticket_put_ok =>
               /\ res.ticket_sk \in DOMAIN tbl
               /\ tbl[res.ticket_sk].challenger_sk = <<"NONE_SELECTED">>
               /\ tbl[res.ticket_sk].ai_analysis = <<"No challenger improved on the failure.">>
       ELSE res.reason = <<"No challenger improved on the failure.">>

\* The Judge's result is one reached with the given challenger as winner:
\* the success record naming it, handle_failure's result for it, or the
\* failure of an unusable compliance answer
WinnerResult(tbl, res, ticket_put_ok, sk) ==
    \/ IsRaised(res) /\ res.error \in {"KeyError: passed", "KeyError: reason"}
    \/ /\ ~IsRaised(res) /\ res.improved
       /\ res.selected_challenger_sk = sk
       /\ res.improved_response = SimResponse(sk)
    \/ /\ ~IsRaised(res) /\ ~res.improved
       /\ IF JudgeTerminal(res)
          THEN ticket_put_ok =>
                  /\ res.ticket_sk \in DOMAIN tbl
                  /\ tbl[res.ticket_sk].challenger_sk = sk
          ELSE res.reason[1] = "Improved logic but failed Compliance: "

\* C22: in a Judge invocation that fetched genome and chat, the candidates
\* are the challengers of the input list that were fetched and simulated,
\* in input order, whatever happened to the others; an answer of the
\* comparator that names one of them makes that challenger the winner,
\* and every other answer (an index out of range, -1, no index, an array,
\* an error or an unparsable answer) gives no winner.
C22_WinnerIsASimulatedChallenger ==
    (last.op = "Judge" /\ last.reads_ok) =>
        LET res == runs[last.id].judgeResult
            n == Cardinality(SimulatedPositions(table, last.challenger_sks, last.sim_ok))
        IN  IF NamesCandidate(last.comparator, n)
            THEN WinnerResult(table, res, last.ticket_put_ok,
                    NthSimulated(table, last.challenger_sks, last.sim_ok,
                                 last.comparator.winner_id + 1))
            ELSE NoWinnerResult(table, res, last.ticket_put_ok)

\* The Judge has returned the third challenger as winner after the first
\* failed in simulation and the comparator named candidate 1
C22_Witness ==
    /\ JudgeSucceeded
    /\ last.sim_ok = {2, 3} /\ last.comparator.winner_id = 1
    /\ runs[last.id].judgeResult.selected_challenger_sk = last.challenger_sks[3]

\* The last step is a Judge invocation that fetched genome and chat and in
\* which no challenger was simulated
NoneSimulated ==
    /\ last.op = "Judge" /\ last.reads_ok
    /\ SimulatedPositions(table, last.challenger_sks, last.sim_ok) = {}

\* C23 (as stated): a Judge invocation in which no challenger is simulated
\* returns a non-terminal failure whose reason is "No challenger improved
\* on the failure.", whatever the arbitration gateway would answer in the
\* comparator and compliance stages.
C23_NoCandidatesNonTerminal ==
    NoneSimulated =>
        runs[last.id].judgeResult =
            [improved |-> FALSE,
             reason |-> <<"No challenger improved on the failure.">>,
             retryCount |-> last.retry_count]

\* C23 (amended): a Judge invocation in which no challenger is simulated
\* returns what handle_failure returns for the reason "No challenger
\* improved on the failure." and no failed challenger, whatever the
\* arbitration gateway would answer in either stage: below the retry
\* threshold the non-terminal failure with that reason, and from the
\* threshold on the terminal failure whose ticket carries that reason and
\* names no challenger.
C23_NoCandidatesEscalates ==
    NoneSimulated =>
        LET res == runs[last.id].judgeResult
        IN  /\ last.hf
            /\ IF last.retry_count < RetryThreshold
               THEN res = [improved |-> FALSE,
                           reason |-> <<"No challenger improved on the failure.">>,
                           retryCount |-> last.retry_count]
               ELSE /\ ~IsRaised(res) /\ ~res.improved /\ JudgeTerminal(res)
                    /\ res.retryCount = last.retry_count
                    /\ last.ticket_put_ok =>
                          /\ res.ticket_sk \in DOMAIN table
                          /\ table[res.ticket_sk].challenger_sk = <<"NONE_SELECTED">>
                          /\ table[res.ticket_sk].ai_analysis =
                                <<"No challenger improved on the failure.">>

\* A Judge invocation without candidates has returned below the threshold,
\* with gateway answers that would have named a candidate and would have
\* failed the compliance stage
C23_Witness ==
    /\ NoneSimulated /\ last.retry_count = 0
    /\ NamesCandidate(last.comparator, 1) /\ last.compliance = JudgeEmpty
    /\ runs[last.id].judgeResult.reason = <<"No challenger improved on the failure.">>

\* The turns of request q are in the transcript
HasTurnsOf(transcript, q) ==
    \E i \in 1..Len(transcript) : transcript[i].content = <<"message", q>>

\* C24: the transcript a request stores is the copy it loaded before the
\* gateway call followed by its own two turns, whatever the store holds
\* for the conversation at the time of the write (the field is
\* overwritten, not merged).
C24_TranscriptWriteIsReadCopyPlusTurns ==
    [][\A q \in ReqIds : (Finishing(q) /\ Responded(q) /\ last'.store_ok) =>
          StoredTranscript(table', ChatSK(reqs[q].version_sk, reqs[q].chat_id))
             = reqs[q].existing_transcript \o NewTurns(q)]_vars

\* Two requests on the seeded conversation overlapped, both loaded the
\* stored transcript, both were answered and both wrote; the stored
\* transcript holds the earlier turns and the turns of one of them only
C24_Witness ==
    /\ \A q \in ReqIds : reqs[q].pc = "done" /\ reqs[q].statusCode = 200 /\ reqs[q].stored
    /\ last.op = "ProxyFinish" /\ last.overlapped /\ last.read_ok
    /\ LET transcript == StoredTranscript(table, last.chat_sk)
       IN  /\ transcript = SeedChat.transcript \o NewTurns(last.id)
           /\ \A q \in ReqIds \ {last.id} : ~HasTurnsOf(transcript, q)

\* --- concurrent promotions
\* The Supervisor invocation of run r returned a success record
Promoted(rs, r) ==
    Has(rs[r].supervisorResult, "status") /\ rs[r].supervisorResult.status = "SUCCESS"

\* The item is the GenomeVersion minted by the Supervisor invocation of run r
MintedBy(item, r) ==
    /\ item # None /\ item.EntityType = "Genome"
    /\ item.metadata.creator = "Supervisor_Agent"
    /\ item.metadata.version_hash[2][1] = r

\* C25: when a Supervisor invocation writes the CurrentPointer and returns
\* its success record, the pointer references the GenomeVersion that this
\* invocation minted, whatever another promotion of the lineage wrote
\* before or in between; and the GenomeVersion of every invocation that
\* returned a success record is in the store.
C25_LastPointerWriteWins ==
    [][\A r \in RunIds : (runs[r].pc = "sup_pointer" /\ Promoted(runs', r)) =>
          /\ table'[CURRENT].active_version_sk = runs[r].sup.new_version_sk
          /\ runs'[r].supervisorResult.new_active_version = runs[r].sup.new_version_sk
          /\ MintedBy(GetItem(table', table'[CURRENT].active_version_sk), r)
          /\ \A r2 \in RunIds : Promoted(runs', r2) =>
                \E sk \in VersionSKs(table') : MintedBy(table'[sk], r2)]_vars

\* The fields of a GenomeVersion that evolution never rewrites
BehaviouralFields ==
    {"brain", "config", "resources", "capabilities", "evolution_config", "metadata"}
FeedbackCounters == {"likes", "dislikes"}

\* new is old up to the feedback counters
SameButCounters(old, new) ==
    /\ DOMAIN new = DOMAIN old
    /\ \A f \in BehaviouralFields \cap DOMAIN old : new[f] = old[f]
    /\ \A f \in DOMAIN old \ (BehaviouralFields \cup {"economics"}) : new[f] = old[f]
    /\ Has(old, "economics") =>
          /\ DOMAIN new.economics \ FeedbackCounters = DOMAIN old.economics \ FeedbackCounters
          /\ \A f \in DOMAIN old.economics \ FeedbackCounters :
                new.economics[f] = old.economics[f]

\* C26: no step of the Serving Path, the Critic, the Mutator, the Judge,
\* the Supervisor or the feedback handler changes a top-level GenomeVersion
\* that is in the store, except for its economics.likes and
\* economics.dislikes
C26_ExistingVersionOnlyCountersChange ==
    [][\A sk \in DOMAIN table :
          IsVersionSK(sk) =>
              /\ sk \in DOMAIN table'
              /\ SameButCounters(table[sk], table'[sk])]_vars

\* The last step is a Critic invocation whose put_events raised, and a
\* Serving Path request whose put_events raised
CriticEmitFailed == last.op \in CriticOps /\ last.cause = "emit"
ProxyEmitFailed == last.op = "ProxyFinish" /\ last.emit_called /\ ~last.emit_ok

\* C27: when the event bus call raises, the Serving Path request still
\* answers 200 with its response, and the Critic invocation still returns
\* with its verdict persisted
C27_EmitFailureNeverFailsInvocation ==
    /\ ProxyEmitFailed =>
          /\ reqs[last.id].statusCode = 200
          /\ reqs[last.id].response = <<"reply", last.id>>
    /\ CriticEmitFailed => (~last.raised /\ last.persisted)

\* --- C28
\* The candidates the Judge invocation of the last step simulated
SimulatedCandidates ==
    IF last.op = "Judge" /\ (JudgeSucceeded \/ last.hf)
    THEN candidate_responses(table, last.challenger_sks, last.sim_ok, 1)
    ELSE <<>>

\* C28: every challenger a Judge invocation simulated was simulated on the
\* model id the Serving Path invokes for a GenomeVersion with the
\* challenger's config
C28_SimulatedOnServingModel ==
    \A i \in DOMAIN SimulatedCandidates :
        SimulatedCandidates[i].model_id
            = proxy_model_id(table[SimulatedCandidates[i].challenger_sk].config)

\* --- C29
\* The top-level GenomeVersions the Supervisor minted from a Challenger
PromotedVersions(tbl) ==
    {sk \in VersionSKs(tbl) : tbl[sk].metadata.creator = "Supervisor_Agent"}

\* C29: no two top-level GenomeVersions in the store were promoted from
\* Challengers of the same parent (no two carry the same parent_hash)
C29_AtMostOneChildPromoted ==
    \A sk1, sk2 \in PromotedVersions(table) :
        table[sk1].metadata.parent_hash = table[sk2].metadata.parent_hash => sk1 = sk2

\* --- C30
\* The model output on which the Mutator takes the fallback path: the call
\* raised, the text holds no usable JSON, or the array does not have
\* three entries
FallbackForced(content) ==
    \/ content.kind \in {"error", "nojson", "invalid"}
    \/ content.kind = "dict" /\ ~Has(content, "mutations")
    \/ content.kind = "dict" /\ Has(content, "mutations")
          /\ content.mutations.py = "list" /\ Len(content.mutations.items) # 3
    \/ content.kind = "list" /\ Len(content.items) # 3

\* A brain the fallback can work on, with a persona tone
TonedBrain(brain) ==
    /\ ~FallbackFails(brain)
    /\ Has(brain.persona, "tone")

\* variant is brain with the tone suffixed and one entry added at the end
\* of the named list, everything else as in brain
FallbackVariant(brain, variant, suffix, list) ==
    /\ DOMAIN variant = DOMAIN brain
    /\ DOMAIN variant.persona = DOMAIN brain.persona
    /\ variant.persona.tone = brain.persona.tone \o <<suffix>>
    /\ \A f \in DOMAIN brain.persona \ {"tone"} : variant.persona[f] = brain.persona[f]
    /\ Len(variant[list]) = Len(brain[list]) + 1
    /\ SubSeq(variant[list], 1, Len(brain[list])) = brain[list]
    /\ \A f \in DOMAIN brain \ {"persona", list} : variant[f] = brain[f]

\* C30: a Mutator invocation on the fallback path, for a parent whose brain
\* has the persona tone T, writes three challengers whose brains have the
\* tones T (Stricter), T (Empathetic) and T (Concise) in that order, the
\* first two with one entry added to operational_guidelines, the third with
\* one entry added to style_guide, and leaves the parent's brain as it was
C30_FallbackVariants ==
    [][\A r \in RunIds :
          LET genome_sk == runs[r].detail.genome_sk
              brain == table[genome_sk].brain
              sks == runs'[r].mutatorResult.challenger_sks
          IN  (/\ runs[r].pc = "mutator" /\ runs'[r] # runs[r]
               /\ last'.op = "Mutator" /\ FallbackForced(last'.content)
               /\ ~last'.store_fault
               /\ genome_sk \in DOMAIN table /\ Has(table[genome_sk], "brain")
               /\ TonedBrain(brain))
              => /\ ~IsRaised(runs'[r].mutatorResult)
                 /\ Len(sks) = 3
                 /\ \A i \in 1..3 : sks[i] \in DOMAIN table'
                 /\ FallbackVariant(brain, table'[sks[1]].brain, " (Stricter)",
                                    "operational_guidelines")
                 /\ FallbackVariant(brain, table'[sks[2]].brain, " (Empathetic)",
                                    "operational_guidelines")
                 /\ FallbackVariant(brain, table'[sks[3]].brain, " (Concise)",
                                    "style_guide")
                 /\ table'[genome_sk].brain = brain]_vars

\* A fallback round on a parent with the tone Warm has written its three
\* challengers
C30_Witness ==
    /\ last.op = "Mutator" /\ FallbackForced(last.content) /\ ~last.store_fault
    /\ table[V1_SK].brain.persona = [role |-> "Concierge", tone |-> <<"Warm">>]
    /\ Has(table[V1_SK].brain, "style_guide")
    /\ ~IsRaised(runs[last.id].mutatorResult)
    /\ LET sks == runs[last.id].mutatorResult.challenger_sks
       IN  /\ table[sks[1]].brain.persona.tone = <<"Warm", " (Stricter)">>
           /\ table[sks[2]].brain.persona.tone = <<"Warm", " (Empathetic)">>
           /\ table[sks[3]].brain.persona.tone = <<"Warm", " (Concise)">>

\* --- C31
\* The Chat of the Judge invocation of the last step, fetched with the
\* FAIL verdict the Critic stored on it
JudgedChat == GetItem(table, judge_chat_sk(runs[last.id].detail))
JudgedFail ==
    /\ last.op = "Judge" /\ last.reads_ok
    /\ GetItem(table, runs[last.id].detail.genome_sk) # None
    /\ JudgedChat # None
    /\ Get(JudgedChat, "critic_verdict", None) = Some("FAIL")

\* The index of the failing turn the Chat records: the stored
\* failure_turn_index, the last turn when none is recorded
RecordedIndex(chat) ==
    IF Has(chat, "failure_turn_index") /\ chat.failure_turn_index # None
    THEN chat.failure_turn_index[1]
    ELSE Len(chat.transcript) - 1

\* C31: a Judge invocation on a Chat with a persisted FAIL verdict works
\* with an index that lies within the transcript, simulates against
\* exactly the turns before that index and takes the turn at the index as
\* the original failing response
C31_TruncatedAtFailureTurn ==
    JudgedFail =>
        LET transcript == JudgedChat.transcript
            index == RecordedIndex(JudgedChat)
        IN  /\ ~IsRaised(last.context)
            /\ 0 <= index /\ index < Len(transcript)
            /\ last.context.failure_index = index
            /\ last.context.truncated_transcript = SubSeq(transcript, 1, index)
            /\ last.context.original_bad_response = transcript[index + 1].content

\* --- C32
\* C32: a Critic invocation that has fetched the Chat derives, from the
\* chat sort key the Serving Path builds for the version V and the
\* conversation id c, the sort key V, also when c holds '#CHAT#'; an
\* invocation on a sort key without '#CHAT#' (a version's own key) raises
\* and neither stores a verdict nor emits an event
C32_DerivedKeyIsVersionKey ==
    last.op \in CriticOps =>
        /\ \A V \in VersionSKs(table), c \in KeyChatIds :
              (last.chat_sk = ChatSK(V, c) /\ last.cause \notin {"read", "chat"})
                  => (last.genome_sk = V /\ last.cause # "chat_sk")
        /\ last.chat_sk \in VersionSKs(table)
              => (last.raised /\ ~last.persisted /\ ~last.emitted)

\* The Critic has derived the key of a promoted version from the key of a
\* conversation whose id holds '#CHAT#'
C32_Witness ==
    /\ last.op = "Critic"
    /\ \E V \in VersionSKs(table) \ {V1_SK} :
          last.chat_sk = ChatSK(V, "a#CHAT#b") /\ last.genome_sk = V

\* --- C33
\* C33: whenever a step changes the version the CurrentPointer references,
\* the newly referenced GenomeVersion is a child of the version referenced
\* before the step (its parent_hash is that version's version_hash)
C33_PointerMovesToChildOfActive ==
    [][table'[CURRENT].active_version_sk # table[CURRENT].active_version_sk =>
          LET old == table[table[CURRENT].active_version_sk]
              new == GetItem(table', table'[CURRENT].active_version_sk)
          IN  /\ new # None
              /\ new.metadata.parent_hash = old.metadata.version_hash]_vars

\* --- C34
\* The step in which the Supervisor invocation of run r returns
SupervisorReturns(r) ==
    /\ runs'[r] # runs[r]
    /\ \/ runs[r].pc = "supervisor" /\ runs'[r].pc # "sup_pointer"
       \/ runs[r].pc = "sup_pointer"

\* The GenomeVersions in the store that the Supervisor invocation of run r
\* in round retry_count minted
MintedIn(tbl, r, retry_count) ==
    {sk \in PromotedVersions(tbl) :
        tbl[sk].metadata.version_hash = <<"uuid4", <<r, retry_count, "V">>>>}

\* C34: when a Supervisor invocation returns a failure result, the store
\* holds no GenomeVersion minted by that invocation and the step leaves
\* the CurrentPointer as it was
C34_FailureLeavesNoVersion ==
    [][\A r \in RunIds :
          (SupervisorReturns(r) /\ ~Promoted(runs', r)) =>
              /\ MintedIn(table', r, runs[r].retryCount) = {}
              /\ table'[CURRENT] = table[CURRENT]]_vars

\* --- C35
\* The last step is a Serving Path request that put its 'response
\* generated' event on the bus
ProxyEmitted == last.op = "ProxyFinish" /\ last.emit_called /\ last.emit_ok

\* The Chat ends with the two turns of request q
ChatHasTurnsOf(chat, q) ==
    /\ chat # None
    /\ LET transcript == Get(chat, "transcript", <<>>)
           n == Len(transcript)
       IN  n >= 2 /\ SubSeq(transcript, n - 1, n) = NewTurns(q)

\* C35: when a Serving Path request has put its event on the bus, the Chat
\* the event names is in the store and ends with the user and assistant
\* turns of that request
C35_EventOnlyAfterTranscriptStored ==
    ProxyEmitted => ChatHasTurnsOf(GetItem(table, last.chat_sk), last.id)

\* --- C36
\* The challenger sort keys the Mutator of run r returned
ChallengersOf(r) ==
    IF Has(runs[r].mutatorResult, "challenger_sks")
    THEN {runs[r].mutatorResult.challenger_sks[i] :
              i \in 1..Len(runs[r].mutatorResult.challenger_sks)}
    ELSE {}

\* C36: the Challengers a run hands to its Judge are in the store as the
\* run's own Mutator wrote them (they carry the failure reason of the run's
\* conversation), and two runs for different conversations hold no
\* Challenger sort key in common
C36_RunsKeepTheirChallengers ==
    /\ \A r \in RunIds :
          runs[r].pc = "judge" =>
              \A sk \in ChallengersOf(r) :
                  /\ sk \in DOMAIN table
                  /\ table[sk].metadata.mutation_reason = runs[r].detail.reason
    /\ \A r1, r2 \in RunIds :
          (r1 # r2 /\ runs[r1].pc # "idle" /\ runs[r2].pc # "idle"
             /\ runs[r1].detail.chat_sk # runs[r2].detail.chat_sk)
              => ChallengersOf(r1) \cap ChallengersOf(r2) = {}

\* --- C37
\* The attributes that differ, in value or in presence, between two items
ChangedFields(old, new) ==
    {f \in DOMAIN old \cup DOMAIN new :
        f \notin DOMAIN old \/ f \notin DOMAIN new \/ old[f] # new[f]}
AnnotationFields == CriticFields \cup {"updated_at"}

\* C37: on every item, the step of a finishing Serving Path request changes
\* nothing but transcript and updated_at (and creates the Chat under its
\* key when there was none), and every other step, that of a Critic
\* invocation included, changes nothing but critic_verdict, critic_reason,
\* failure_turn_index and updated_at of an item that exists: whichever of
\* the two writes lands second keeps what the first one wrote.
C37_AnnotationAndAppendKeepEachOther ==
    [][\A sk \in DOMAIN table' :
          LET changed == ChangedFields(GetItem(table, sk), table'[sk])
          IN  IF \E q \in ReqIds : Finishing(q)
              THEN changed \subseteq
                       TranscriptFields \cup (IF sk \in DOMAIN table THEN {} ELSE {"SK"})
              ELSE sk \in DOMAIN table /\ changed \subseteq AnnotationFields]_vars

\* A Critic annotation has just landed between the read and the write of
\* a request on the same Chat, on top of the turns another request
\* appended: the Chat carries the verdict and the appended turns
C37_Witness ==
    /\ last.op \in CriticOps /\ last.persisted
    /\ Has(table[last.chat_sk], "critic_verdict")
    /\ \E q1, q2 \in ReqIds :
          /\ reqs[q1].pc = "done" /\ reqs[q2].pc = "resolved"
          /\ ChatSK(reqs[q2].version_sk, reqs[q2].chat_id) = last.chat_sk
          /\ ChatHasTurnsOf(table[last.chat_sk], q1)

\* --- C38
\* The verdict stored on the Chat of a version and a conversation is FAIL
StoredFail(tbl, version_sk, chat_id) ==
    Get(GetItem(tbl, ChatSK(version_sk, chat_id)), "critic_verdict", None) = Some("FAIL")
\* Request q loads its chat history in this step
LoadsHistory(q) == reqs[q].pc = "idle" /\ reqs'[q].pc = "resolved"

\* C38: a request that loads the history of a Chat on which FAIL is stored
\* proceeds with the verdict FAIL and emits no event when it finishes, and
\* no step takes a stored FAIL off a Chat.
C38_FailIsAbsorbing ==
    [][/\ \A q \in ReqIds :
             (LoadsHistory(q) /\ StoredFail(table, reqs'[q].version_sk, reqs'[q].chat_id))
                 => reqs'[q].critic_verdict = Some("FAIL")
       /\ \A q \in ReqIds :
             (Finishing(q) /\ Has(reqs[q], "critic_verdict")
                /\ reqs[q].critic_verdict = Some("FAIL")) => events' = events
       /\ \A sk \in DOMAIN table :
             Get(table[sk], "critic_verdict", None) = Some("FAIL")
                 => Get(table'[sk], "critic_verdict", None) = Some("FAIL")]_vars

\* --- C39
\* Run r writes a new top-level GenomeVersion in this step
Minting(r) == runs[r].pc = "supervisor" /\ runs'[r].pc = "sup_pointer"
\* The version_hash values of the GenomeVersions and Challengers of a store
VersionHashes(tbl) ==
    {tbl[sk].metadata.version_hash :
        sk \in {k \in DOMAIN tbl : /\ IsVersionSK(k) \/ IsChallengerSK(k)
                                   /\ Has(tbl[k], "metadata")
                                   /\ Has(tbl[k].metadata, "version_hash")}}

\* C39: the GenomeVersion a Supervisor invocation writes carries as
\* parent_hash the version_hash of the GenomeVersion the winning Challenger
\* was derived from (the version whose sort key the Challenger's key
\* extends), and a version_hash that no GenomeVersion or Challenger in the
\* store carried before the write.
C39_PromotionAddsOneEdge ==
    [][\A r \in RunIds : Minting(r) =>
          LET new == table'[runs'[r].sup.new_version_sk]
              parent == GetItem(table, SubSeq(runs'[r].sup.winner_sk, 1, 2))
          IN  /\ IsChallengerSK(runs'[r].sup.winner_sk)
              /\ parent # None
              /\ new.metadata.parent_hash = parent.metadata.version_hash
              /\ new.metadata.version_hash \notin VersionHashes(table)]_vars

\* A version promoted from a Challenger of a promoted version is in the
\* store, the pointer on it: its parent_hash is the hash the first
\* promotion minted
C39_Witness ==
    \E sk \in DOMAIN table :
        /\ IsVersionSK(sk) /\ table[CURRENT].active_version_sk = sk
        /\ \E p \in DOMAIN table :
              /\ IsVersionSK(p) /\ p # V1_SK /\ p # sk
              /\ table[sk].metadata.parent_hash = table[p].metadata.version_hash
              /\ table[p].metadata.parent_hash = table[V1_SK].metadata.version_hash

\* --- C40
\* The top-level GenomeVersions of a store whose deployment_state is ACTIVE
ActiveVersions(tbl) ==
    {sk \in DOMAIN tbl : /\ IsVersionSK(sk)
                         /\ Has(tbl[sk], "metadata")
                         /\ Has(tbl[sk].metadata, "deployment_state")
                         /\ tbl[sk].metadata.deployment_state = "ACTIVE"}

\* C40: whenever no Supervisor invocation is between its two writes, the
\* GenomeVersion the CurrentPointer references is the one and only
\* top-level GenomeVersion with deployment_state ACTIVE.
C40_OnlyPointerTargetIsActive ==
    (\A r \in RunIds : runs[r].pc # "sup_pointer")
        => ActiveVersions(table) = {table[CURRENT].active_version_sk}

====
